---- MODULE Spec2Model ----
(***************************************************************************)
(* Verification model of the midcurve-shared Uniswap V3 math library:      *)
(* liquidity <-> token amount conversions, fee growth accounting, position *)
(* phase classification, price <-> sqrt ratio <-> tick conversions,        *)
(* position valuation, the PnL curve and the base / quote token mapping.   *)
(*                                                                         *)
(* The library is a set of pure bigint functions.  Every specification     *)
(* below draws the arguments of a call in its initial state and has one    *)
(* action per exported function; the action stores what the function       *)
(* returns (or that it threw) in the state.  generatePnLCurve, the one      *)
(* function with a loop, takes one step per loop iteration.                *)
(*                                                                         *)
(* Fixed point: the source works with Q96 = 2^96, Q128 = 2^128 and         *)
(* Q192 = 2^192.  The functions are written against these names only, so   *)
(* the model keeps the names and the relation Q192 = Q96 * Q96 and lowers  *)
(* the number of fractional bits (QBits, FeeBits) so that every            *)
(* intermediate product stays inside TLC's integer range.  bigint itself   *)
(* never overflows, so no wrap-around is modelled.                         *)
(***************************************************************************)
EXTENDS Integers, Naturals, Sequences, FiniteSets, TLC

----------------------------------------------------------------------------
(* Bounds of the model *)

\* fractional bits of a sqrt price (96 in the source)
QBits == 3
\* largest sqrt price drawn (Q96 fixed point); 0 is drawn too, as the one
\* non-positive sqrt price a caller can pass
MaxSqrtPrice == 12
\* largest liquidity drawn
MaxLiquidity == 8
\* largest token amount handed to the amount -> liquidity functions
MaxAmount == 3
\* largest base / quote amount of an investment budget; -1 is drawn too
MaxInvestment == 3
\* fractional bits of a fee growth accumulator (128 in the source)
FeeBits == 2
\* largest fee growth accumulator of computeFeeGrowthInside
MaxFeeGrowth == 2
\* largest fee growth inside value of calculateIncrementalFees
MaxFeeGrowthInside == 8
\* ticks are drawn from -MaxTick .. MaxTick
MaxTick == 2
\* largest position value and cost basis handed to calculatePnL; the cost
\* basis -1 is drawn too
MaxValue == 12
\* largest price (quote units per base token) drawn; 0 is drawn too
MaxPrice == 10
\* largest number of decimals of the base token
MaxDecimals == 2
\* largest price handed to the price -> tick conversions on their own; the
\* price -1 is drawn too
MaxQuotedPrice == 70
\* tick spacings are drawn from 1 .. MaxTickSpacing (the source's fee tiers
\* have the spacings 1, 10, 60 and 200 on a tick range of +-887272)
MaxTickSpacing == 4
\* largest numPoints of a PnL curve; 0 is drawn too
MaxPoints == 2
\* characters of an address after its 0x prefix (40 in the source)
AddressLength == 1

Q96 == 2 ^ QBits
Q192 == Q96 * Q96
Q128 == 2 ^ FeeBits

SqrtPrices == 0 .. MaxSqrtPrice
Liquidities == 0 .. MaxLiquidity
Amounts == 0 .. MaxAmount
Investments == -1 .. MaxInvestment
FeeGrowths == 0 .. MaxFeeGrowth
FeeGrowthsInside == 0 .. MaxFeeGrowthInside
Ticks == -MaxTick .. MaxTick
Values == 0 .. MaxValue
CostBases == -1 .. MaxValue
Prices == 0 .. MaxPrice
Decimals == 0 .. MaxDecimals
QuotedPrices == -1 .. MaxQuotedPrice
TickSpacings == 1 .. MaxTickSpacing
\* token addresses, as strings of digits
Addresses == {<<1>>, <<2>>}
\* characters of an address string: hexadecimal digits in both cases, and
\* one character that is no hexadecimal digit
HexChars == {"a", "A", "b", "c"}
Chars == HexChars \cup {"g"}
\* address strings as a caller may pass them, the text after the 0x prefix:
\* well-formed ones, ones with a foreign character, and the empty string
AddressStrings == {<< >>} \cup [1 .. AddressLength -> Chars]

----------------------------------------------------------------------------
(* bigint arithmetic *)

\* bigint `/`: truncates toward zero.  A zero divisor throws a RangeError in
\* the source; the callers below record that in `threw`, and the quotient
\* is then never used (0 keeps the operator total).
BigIntDiv(a, b) ==
    IF b = 0 THEN 0
    ELSE IF a >= 0 /\ b > 0 THEN a \div b
    ELSE IF a < 0 /\ b < 0 THEN (-a) \div (-b)
    ELSE IF a < 0 THEN -((-a) \div b)
    ELSE -(a \div (-b))

\* bigint `%`: the remainder of the truncating division
BigIntMod(a, b) == a - b * BigIntDiv(a, b)

\* mulDiv(a, b, c) of ../math.js: floor(a * b / c) without intermediate overflow
mulDiv(a, b, c) == BigIntDiv(a * b, c)

----------------------------------------------------------------------------
(* Liquidity conversion: single-range helpers *)

\* variant of getAmount0FromLiquidity whose guard forgets the bounds check
getAmount0FromLiquidity_noBoundsGuard(sqrtPriceLower, sqrtPriceUpper, liq, up) ==
    IF liq = 0 THEN 0
    ELSE LET numerator1 == liq * (sqrtPriceUpper - sqrtPriceLower)
             denominator == sqrtPriceUpper * sqrtPriceLower
         IN  IF up
             THEN LET product == numerator1 * Q96
                  IN  IF BigIntMod(product, denominator) = 0
                      THEN BigIntDiv(product, denominator)
                      ELSE BigIntDiv(product, denominator) + 1
             ELSE mulDiv(numerator1, Q96, denominator)

getAmount0FromLiquidity(sqrtPriceLower, sqrtPriceUpper, liq, up) ==
    IF sqrtPriceUpper <= sqrtPriceLower \/ liq = 0 THEN 0
    ELSE LET numerator1 == liq * (sqrtPriceUpper - sqrtPriceLower)
             denominator == sqrtPriceUpper * sqrtPriceLower
         IN  IF up
             THEN LET product == numerator1 * Q96
                  IN  IF BigIntMod(product, denominator) = 0
                      THEN BigIntDiv(product, denominator)
                      ELSE BigIntDiv(product, denominator) + 1
             ELSE mulDiv(numerator1, Q96, denominator)

\* the division by sqrtPriceUpper * sqrtPriceLower is reached with a zero
\* divisor: RangeError
getAmount0FromLiquidity_throws(sqrtPriceLower, sqrtPriceUpper, liq) ==
    /\ ~(sqrtPriceUpper <= sqrtPriceLower \/ liq = 0)
    /\ sqrtPriceUpper * sqrtPriceLower = 0

\* variant of getAmount1FromLiquidity whose ceiling adds 1 without looking
\* at the remainder
getAmount1FromLiquidity_ceilPlusOne(sqrtPriceLower, sqrtPriceUpper, liq, up) ==
    IF sqrtPriceUpper <= sqrtPriceLower \/ liq = 0 THEN 0
    ELSE LET delta == sqrtPriceUpper - sqrtPriceLower
         IN  IF up
             THEN BigIntDiv(liq * delta, Q96) + 1
             ELSE mulDiv(liq, delta, Q96)

\* variant of getAmount1FromLiquidity that takes the ceiling in both modes
getAmount1FromLiquidity_alwaysCeil(sqrtPriceLower, sqrtPriceUpper, liq, up) ==
    IF sqrtPriceUpper <= sqrtPriceLower \/ liq = 0 THEN 0
    ELSE LET product == liq * (sqrtPriceUpper - sqrtPriceLower)
         IN  IF BigIntMod(product, Q96) = 0
             THEN BigIntDiv(product, Q96)
             ELSE BigIntDiv(product, Q96) + 1

getAmount1FromLiquidity(sqrtPriceLower, sqrtPriceUpper, liq, up) ==
    IF sqrtPriceUpper <= sqrtPriceLower \/ liq = 0 THEN 0
    ELSE LET delta == sqrtPriceUpper - sqrtPriceLower
         IN  IF up
             THEN LET product == liq * delta
                  IN  IF BigIntMod(product, Q96) = 0
                      THEN BigIntDiv(product, Q96)
                      ELSE BigIntDiv(product, Q96) + 1
             ELSE mulDiv(liq, delta, Q96)

\* variant of getLiquidityFromAmount0 that takes the ceiling in both modes
getLiquidityFromAmount0_alwaysCeil(sqrtPriceLower, sqrtPriceUpper, amount0, up) ==
    IF sqrtPriceUpper <= sqrtPriceLower \/ amount0 <= 0 THEN 0
    ELSE LET delta == sqrtPriceUpper - sqrtPriceLower
             numerator == amount0 * (sqrtPriceLower * sqrtPriceUpper)
             denominator == Q96 * delta
         IN  BigIntDiv(numerator + denominator - 1, denominator)

getLiquidityFromAmount0(sqrtPriceLower, sqrtPriceUpper, amount0, up) ==
    IF sqrtPriceUpper <= sqrtPriceLower \/ amount0 <= 0 THEN 0
    ELSE LET delta == sqrtPriceUpper - sqrtPriceLower
             numerator == amount0 * (sqrtPriceLower * sqrtPriceUpper)
             denominator == Q96 * delta
         IN  IF up
             THEN BigIntDiv(numerator + denominator - 1, denominator)
             ELSE BigIntDiv(numerator, denominator)

getLiquidityFromAmount1(sqrtPriceLower, sqrtPriceUpper, amount1, up) ==
    IF sqrtPriceUpper <= sqrtPriceLower \/ amount1 <= 0 THEN 0
    ELSE LET delta == sqrtPriceUpper - sqrtPriceLower
             numerator == amount1 * Q96
             denominator == delta
         IN  IF up
             THEN BigIntDiv(numerator + denominator - 1, denominator)
             ELSE BigIntDiv(numerator, denominator)

----------------------------------------------------------------------------
(* Liquidity conversion: the three price regimes *)

TokenAmounts(a0, a1) == [token0Amount |-> a0, token1Amount |-> a1]

\* variant of getTokenAmountsFromLiquidity_X96 that does not substitute the
\* current price for the lower bound of token0 inside the range
getTokenAmountsFromLiquidity_X96_fullRange(liq, sqrtCur, sqrtLo, sqrtUp, up) ==
    IF liq = 0 THEN TokenAmounts(0, 0)
    ELSE IF sqrtCur <= sqrtLo
    THEN TokenAmounts(getAmount0FromLiquidity(sqrtLo, sqrtUp, liq, up), 0)
    ELSE IF sqrtCur >= sqrtUp
    THEN TokenAmounts(0, getAmount1FromLiquidity(sqrtLo, sqrtUp, liq, up))
    ELSE TokenAmounts(getAmount0FromLiquidity(sqrtLo, sqrtUp, liq, up),
                      getAmount1FromLiquidity(sqrtLo, sqrtCur, liq, up))

\* variant of getTokenAmountsFromLiquidity_X96 that prices the two legs of an
\* in-range position over each other's part of the range
getTokenAmountsFromLiquidity_X96_swappedLegs(liq, sqrtCur, sqrtLo, sqrtUp, up) ==
    IF liq = 0 THEN TokenAmounts(0, 0)
    ELSE IF sqrtCur <= sqrtLo
    THEN TokenAmounts(getAmount0FromLiquidity(sqrtLo, sqrtUp, liq, up), 0)
    ELSE IF sqrtCur >= sqrtUp
    THEN TokenAmounts(0, getAmount1FromLiquidity(sqrtLo, sqrtUp, liq, up))
    ELSE TokenAmounts(getAmount0FromLiquidity(sqrtLo, sqrtCur, liq, up),
                      getAmount1FromLiquidity(sqrtCur, sqrtUp, liq, up))

getTokenAmountsFromLiquidity_X96(liq, sqrtCur, sqrtLo, sqrtUp, up) ==
    IF liq = 0 THEN TokenAmounts(0, 0)
    ELSE IF sqrtCur <= sqrtLo
    THEN TokenAmounts(getAmount0FromLiquidity(sqrtLo, sqrtUp, liq, up), 0)
    ELSE IF sqrtCur >= sqrtUp
    THEN TokenAmounts(0, getAmount1FromLiquidity(sqrtLo, sqrtUp, liq, up))
    ELSE TokenAmounts(getAmount0FromLiquidity(sqrtCur, sqrtUp, liq, up),
                      getAmount1FromLiquidity(sqrtLo, sqrtCur, liq, up))

getTokenAmountsFromLiquidity_X96_throws(liq, sqrtCur, sqrtLo, sqrtUp) ==
    /\ liq # 0
    /\ IF sqrtCur <= sqrtLo
       THEN getAmount0FromLiquidity_throws(sqrtLo, sqrtUp, liq)
       ELSE IF sqrtCur >= sqrtUp
       THEN FALSE
       ELSE getAmount0FromLiquidity_throws(sqrtCur, sqrtUp, liq)

\* variant of getLiquidityFromTokenAmounts_X96 that adds the two
\* single-token liquidities inside the range instead of taking the minimum
getLiquidityFromTokenAmounts_X96_sum(sqrtCur, sqrtLo, sqrtUp, amount0, amount1) ==
    IF sqrtCur <= sqrtLo
    THEN getLiquidityFromAmount0(sqrtLo, sqrtUp, amount0, FALSE)
    ELSE IF sqrtCur >= sqrtUp
    THEN getLiquidityFromAmount1(sqrtLo, sqrtUp, amount1, FALSE)
    ELSE getLiquidityFromAmount0(sqrtCur, sqrtUp, amount0, FALSE)
         + getLiquidityFromAmount1(sqrtLo, sqrtCur, amount1, FALSE)

getLiquidityFromTokenAmounts_X96(sqrtCur, sqrtLo, sqrtUp, amount0, amount1) ==
    IF sqrtCur <= sqrtLo
    THEN getLiquidityFromAmount0(sqrtLo, sqrtUp, amount0, FALSE)
    ELSE IF sqrtCur >= sqrtUp
    THEN getLiquidityFromAmount1(sqrtLo, sqrtUp, amount1, FALSE)
    ELSE LET liquidity0 == getLiquidityFromAmount0(sqrtCur, sqrtUp, amount0, FALSE)
             liquidity1 == getLiquidityFromAmount1(sqrtLo, sqrtCur, amount1, FALSE)
         IN  IF liquidity0 < liquidity1 THEN liquidity0 ELSE liquidity1

----------------------------------------------------------------------------
(* Liquidity conversion: sizing liquidity from an investment budget *)

\* variant of totalBudgetInQuote that nets the base pocket against the quote
\* pocket instead of adding it
totalBudgetInQuote_netted(baseAmt, quoteAmt, quoteIs0, S) ==
    LET baseAsQuote == IF quoteIs0
                       THEN BigIntDiv(baseAmt * Q192, S * S)
                       ELSE BigIntDiv(baseAmt * S * S, Q192)
    IN  quoteAmt - baseAsQuote

totalBudgetInQuote(baseAmt, quoteAmt, quoteIs0, S) ==
    LET baseAsQuote == IF quoteIs0
                       THEN BigIntDiv(baseAmt * Q192, S * S)
                       ELSE BigIntDiv(baseAmt * S * S, Q192)
    IN  quoteAmt + baseAsQuote

quoteToToken0(amountQuoteToken1, S) ==
    BigIntDiv(amountQuoteToken1 * Q192, S * S)

token0ToQuoteToken1(amountQuoteToken0, S) ==
    BigIntDiv(amountQuoteToken0 * S * S, Q192)

\* variant of K_Q96_inToken1 that leaves out the token0 leg of the position
K_Q96_inToken1_token1LegOnly(B, A, S) ==
    IF S <= B THEN 0
    ELSE IF S >= A THEN 0
    ELSE S - B

K_Q96_inToken1(B, A, S) ==
    IF S <= B THEN 0
    ELSE IF S >= A THEN 0
    ELSE LET term1 == S - B
             term2 == BigIntDiv(S * (A - S), A)
         IN  term1 + term2

K_Q96_inToken0(B, A, S) ==
    IF S <= B THEN 0
    ELSE IF S >= A THEN 0
    ELSE LET termA == BigIntDiv(Q192 * (A - S), A * S)
             termB == BigIntDiv(Q192 * (S - B), S * S)
         IN  termA + termB

\* variant of getLiquidityFromInvestmentAmounts that takes the bounds as
\* passed, without ordering them
getLiquidityFromInvestmentAmounts_unordered(baseAmt, quoteAmt, quoteIs0, sqrtLo, sqrtUp, sqrtCur) ==
    IF baseAmt <= 0 /\ quoteAmt <= 0 THEN 0
    ELSE LET A == sqrtUp
             B == sqrtLo
             S == sqrtCur
             budget == totalBudgetInQuote(baseAmt, quoteAmt, quoteIs0, S)
         IN  IF S <= B
             THEN getLiquidityFromAmount0(B, A,
                      IF quoteIs0 THEN budget ELSE quoteToToken0(budget, S),
                      FALSE)
             ELSE IF S >= A
             THEN getLiquidityFromAmount1(B, A,
                      IF quoteIs0 THEN token0ToQuoteToken1(budget, S) ELSE budget,
                      FALSE)
             ELSE LET K_Q96 == IF quoteIs0 THEN K_Q96_inToken0(B, A, S)
                               ELSE K_Q96_inToken1(B, A, S)
                  IN  IF K_Q96 <= 0 THEN 0
                      ELSE BigIntDiv(budget * Q96, K_Q96)

getLiquidityFromInvestmentAmounts(baseAmt, quoteAmt, quoteIs0, sqrtLo, sqrtUp, sqrtCur) ==
    IF baseAmt <= 0 /\ quoteAmt <= 0 THEN 0
    ELSE LET A == IF sqrtUp > sqrtLo THEN sqrtUp ELSE sqrtLo
             B == IF sqrtUp > sqrtLo THEN sqrtLo ELSE sqrtUp
             S == sqrtCur
             budget == totalBudgetInQuote(baseAmt, quoteAmt, quoteIs0, S)
         IN  IF S <= B
             THEN getLiquidityFromAmount0(B, A,
                      IF quoteIs0 THEN budget ELSE quoteToToken0(budget, S),
                      FALSE)
             ELSE IF S >= A
             THEN getLiquidityFromAmount1(B, A,
                      IF quoteIs0 THEN token0ToQuoteToken1(budget, S) ELSE budget,
                      FALSE)
             ELSE LET K_Q96 == IF quoteIs0 THEN K_Q96_inToken0(B, A, S)
                               ELSE K_Q96_inToken1(B, A, S)
                  IN  IF K_Q96 <= 0 THEN 0
                      ELSE BigIntDiv(budget * Q96, K_Q96)

\* past the early return every regime divides by S * S or by Q192 in
\* totalBudgetInQuote (and by S * S in quoteToToken0): a zero current sqrt
\* price is a division by zero when the quote token is token0, and below the
\* range when it is token1
getLiquidityFromInvestmentAmounts_throws(baseAmt, quoteAmt, quoteIs0, sqrtLo, sqrtUp, sqrtCur) ==
    /\ ~(baseAmt <= 0 /\ quoteAmt <= 0)
    /\ sqrtCur * sqrtCur = 0
    /\ \/ quoteIs0
       \/ LET B == IF sqrtUp > sqrtLo THEN sqrtLo ELSE sqrtUp
          IN  sqrtCur <= B

----------------------------------------------------------------------------
(* Fee growth accounting *)

\* variant of safeDiff that subtracts without the floor at zero
safeDiff_raw(a, b) == a - b

safeDiff(a, b) == IF a >= b THEN a - b ELSE 0

FeeGrowthInside(i0, i1) == [inside0 |-> i0, inside1 |-> i1]

\* variant of computeFeeGrowthInside whose lower tick is exclusive
computeFeeGrowthInside_lowerExclusive(tickCur, tickLo, tickUp, global0, global1, outsideLower0, outsideLower1, outsideUpper0, outsideUpper1) ==
    LET below0 == IF tickCur > tickLo THEN outsideLower0
                  ELSE safeDiff(global0, outsideLower0)
        below1 == IF tickCur > tickLo THEN outsideLower1
                  ELSE safeDiff(global1, outsideLower1)
        above0 == IF tickCur < tickUp THEN outsideUpper0
                  ELSE safeDiff(global0, outsideUpper0)
        above1 == IF tickCur < tickUp THEN outsideUpper1
                  ELSE safeDiff(global1, outsideUpper1)
    IN  FeeGrowthInside(safeDiff(safeDiff(global0, below0), above0),
                        safeDiff(safeDiff(global1, below1), above1))

computeFeeGrowthInside(tickCur, tickLo, tickUp, global0, global1, outsideLower0, outsideLower1, outsideUpper0, outsideUpper1) ==
    LET below0 == IF tickCur >= tickLo THEN outsideLower0
                  ELSE safeDiff(global0, outsideLower0)
        below1 == IF tickCur >= tickLo THEN outsideLower1
                  ELSE safeDiff(global1, outsideLower1)
        above0 == IF tickCur < tickUp THEN outsideUpper0
                  ELSE safeDiff(global0, outsideUpper0)
        above1 == IF tickCur < tickUp THEN outsideUpper1
                  ELSE safeDiff(global1, outsideUpper1)
    IN  FeeGrowthInside(safeDiff(safeDiff(global0, below0), above0),
                        safeDiff(safeDiff(global1, below1), above1))

\* variant of calculateIncrementalFees that subtracts the checkpoint directly
calculateIncrementalFees_rawDelta(insideCurrent, insideLast, liq) ==
    BigIntDiv((insideCurrent - insideLast) * liq, Q128)

calculateIncrementalFees(insideCurrent, insideLast, liq) ==
    LET feeGrowthDelta == safeDiff(insideCurrent, insideLast)
    IN  BigIntDiv(feeGrowthDelta * liq, Q128)

----------------------------------------------------------------------------
(* Position phase *)

\* variant of determinePhase whose upper tick is inclusive
determinePhase_upperInclusive(tickCur, tickLo, tickUp) ==
    IF tickCur < tickLo THEN "below"
    ELSE IF tickCur > tickUp THEN "above"
    ELSE "in-range"

\* variant of determinePhase with the labels of the two sides exchanged
determinePhase_labelsSwapped(tickCur, tickLo, tickUp) ==
    IF tickCur < tickLo THEN "above"
    ELSE IF tickCur >= tickUp THEN "below"
    ELSE "in-range"

determinePhase(tickCur, tickLo, tickUp) ==
    IF tickCur < tickLo THEN "below"
    ELSE IF tickCur >= tickUp THEN "above"
    ELSE "in-range"

----------------------------------------------------------------------------
(* Tick math of @uniswap/v3-sdk *)

(***************************************************************************)
(* The source imports TickMath, nearestUsableTick and encodeSqrtRatioX96   *)
(* from @uniswap/v3-sdk.  The library is modelled by its contract, at the  *)
(* scale of the model's fixed point: the sqrt ratio of tick t is           *)
(* Q96 * 2^t (the library: Q96 * 1.0001^(t/2)), the ticks run over         *)
(* MIN_TICK .. MAX_TICK = -QBits .. QBits (the library: -887272 .. 887272) *)
(* so that the smallest sqrt ratio is a positive integer and the sqrt      *)
(* ratios of neighbouring ticks differ.  The library's `invariant` checks  *)
(* are the _throws predicates.                                             *)
(***************************************************************************)
MAX_TICK == QBits
MIN_TICK == -MAX_TICK

\* variant of getSqrtRatioAtTick that loses one more bit below tick 0
getSqrtRatioAtTick_oneBitShort(tick) ==
    IF tick >= 0 THEN Q96 * (2 ^ tick) ELSE Q96 \div (2 ^ (1 - tick))

\* TickMath.getSqrtRatioAtTick(tick)
getSqrtRatioAtTick(tick) ==
    IF tick >= 0 THEN Q96 * (2 ^ tick) ELSE Q96 \div (2 ^ (-tick))

\* invariant(tick >= MIN_TICK && tick <= MAX_TICK, 'TICK')
getSqrtRatioAtTick_throws(tick) == tick < MIN_TICK \/ tick > MAX_TICK

MIN_SQRT_RATIO == getSqrtRatioAtTick(MIN_TICK)
MAX_SQRT_RATIO == getSqrtRatioAtTick(MAX_TICK)

\* TickMath.getTickAtSqrtRatio(sqrtRatioX96): the greatest tick whose sqrt
\* ratio is at most sqrtRatioX96
getTickAtSqrtRatio(sqrtRatioX96) ==
    IF sqrtRatioX96 < MIN_SQRT_RATIO THEN MIN_TICK
    ELSE CHOOSE t \in MIN_TICK .. MAX_TICK :
            /\ getSqrtRatioAtTick(t) <= sqrtRatioX96
            /\ t < MAX_TICK => getSqrtRatioAtTick(t + 1) > sqrtRatioX96

\* invariant(sqrtRatioX96 >= MIN_SQRT_RATIO && sqrtRatioX96 < MAX_SQRT_RATIO,
\*           'SQRT_RATIO')
getTickAtSqrtRatio_throws(sqrtRatioX96) ==
    sqrtRatioX96 < MIN_SQRT_RATIO \/ sqrtRatioX96 >= MAX_SQRT_RATIO

\* Math.round(tick / tickSpacing): the nearest integer, a half rounds up
MathRound(tick, spacing) == (2 * tick + spacing) \div (2 * spacing)

\* nearestUsableTick(tick, tickSpacing)
nearestUsableTick(tick, spacing) ==
    LET rounded == MathRound(tick, spacing) * spacing
    IN  IF rounded < MIN_TICK THEN rounded + spacing
        ELSE IF rounded > MAX_TICK THEN rounded - spacing
        ELSE rounded

\* invariant(tickSpacing > 0, 'TICK_SPACING');
\* invariant(tick >= MIN_TICK && tick <= MAX_TICK, 'TICK_BOUND')
nearestUsableTick_throws(tick, spacing) ==
    spacing <= 0 \/ tick < MIN_TICK \/ tick > MAX_TICK

\* sqrt(value) of the library: the integer square root
RECURSIVE sqrtUpper(_, _)
sqrtUpper(n, h) == IF h * h > n THEN h ELSE sqrtUpper(n, 2 * h)

RECURSIVE sqrtBetween(_, _, _)
sqrtBetween(n, lo, hi) ==
    IF hi - lo <= 1 THEN lo
    ELSE LET mid == (lo + hi) \div 2
         IN  IF mid * mid <= n THEN sqrtBetween(n, mid, hi)
             ELSE sqrtBetween(n, lo, mid)

sqrt(n) == sqrtBetween(n, 0, sqrtUpper(n, 1))

----------------------------------------------------------------------------
(* JSBI <-> bigint *)

\* JSBI.toString(): the decimal digits of a non-negative JSBI, most
\* significant first
RECURSIVE toString(_)
toString(n) ==
    IF n < 10 THEN <<n>> ELSE Append(toString(n \div 10), n % 10)

\* BigInt(str) of a string of decimal digits
RECURSIVE BigInt(_)
BigInt(str) ==
    IF Len(str) = 0 THEN 0
    ELSE BigInt(SubSeq(str, 1, Len(str) - 1)) * 10 + str[Len(str)]

pow10(n) == 10 ^ n

\* encodeSqrtRatioX96(amount1, amount0) of two decimal strings:
\* sqrt((amount1 << 192) / amount0)
encodeSqrtRatioX96(amount1, amount0) ==
    sqrt(BigIntDiv(BigInt(amount1) * Q192, BigInt(amount0)))

----------------------------------------------------------------------------
(* Price to sqrt ratio and tick *)

\* variant of the price check that lets the price 0 through
priceToSqrtRatioX96_throws_negativeOnly(price_) == price_ < 0

\* throw new Error('price must be a positive bigint')
priceToSqrtRatioX96_throws(price_) == price_ <= 0

\* baseTokenAddress and quoteTokenAddress are strings of digits
priceToSqrtRatioX96(baseAddress, quoteAddress, baseDecimals, price_) ==
    LET baseIs0 == BigInt(baseAddress) < BigInt(quoteAddress)
        amount0 == IF baseIs0 THEN pow10(baseDecimals) ELSE price_
        amount1 == IF baseIs0 THEN price_ ELSE pow10(baseDecimals)
    IN  encodeSqrtRatioX96(toString(amount1), toString(amount0))

\* variant of priceToTick that returns the floor tick as it is
priceToTick_unsnapped(price_, spacing, baseAddress, quoteAddress, baseDecimals) ==
    getTickAtSqrtRatio(priceToSqrtRatioX96(baseAddress, quoteAddress, baseDecimals, price_))

priceToTick(price_, spacing, baseAddress, quoteAddress, baseDecimals) ==
    LET sqrtP == priceToSqrtRatioX96(baseAddress, quoteAddress, baseDecimals, price_)
        tickFloor == getTickAtSqrtRatio(sqrtP)
    IN  nearestUsableTick(tickFloor, spacing)

priceToTick_throws(price_, spacing, baseAddress, quoteAddress, baseDecimals) ==
    \/ priceToSqrtRatioX96_throws(price_)
    \/ LET sqrtP == priceToSqrtRatioX96(baseAddress, quoteAddress, baseDecimals, price_)
       IN  \/ getTickAtSqrtRatio_throws(sqrtP)
           \/ nearestUsableTick_throws(getTickAtSqrtRatio(sqrtP), spacing)

\* variant of priceToClosestUsableTick that keeps the floor tick on a tie
priceToClosestUsableTick_tieToFloor(price_, spacing, baseAddress, quoteAddress, baseDecimals) ==
    LET sqrtP == priceToSqrtRatioX96(baseAddress, quoteAddress, baseDecimals, price_)
        t0 == getTickAtSqrtRatio(sqrtP)
    IN  IF t0 >= MAX_TICK THEN nearestUsableTick(MAX_TICK, spacing)
        ELSE IF t0 <= MIN_TICK THEN nearestUsableTick(MIN_TICK, spacing)
        ELSE LET d0 == sqrtP - getSqrtRatioAtTick(t0)
                 d1 == getSqrtRatioAtTick(t0 + 1) - sqrtP
             IN  nearestUsableTick(IF d0 <= d1 THEN t0 ELSE t0 + 1, spacing)

priceToClosestUsableTick(price_, spacing, baseAddress, quoteAddress, baseDecimals) ==
    LET sqrtP == priceToSqrtRatioX96(baseAddress, quoteAddress, baseDecimals, price_)
        t0 == getTickAtSqrtRatio(sqrtP)
    IN  IF t0 >= MAX_TICK THEN nearestUsableTick(MAX_TICK, spacing)
        ELSE IF t0 <= MIN_TICK THEN nearestUsableTick(MIN_TICK, spacing)
        ELSE LET s0 == getSqrtRatioAtTick(t0)
                 s1 == getSqrtRatioAtTick(t0 + 1)
                 d0 == IF sqrtP >= s0 THEN sqrtP - s0 ELSE s0 - sqrtP
                 d1 == IF s1 >= sqrtP THEN s1 - sqrtP ELSE sqrtP - s1
                 tClosest == IF d0 < d1 THEN t0 ELSE t0 + 1
             IN  nearestUsableTick(tClosest, spacing)

priceToClosestUsableTick_throws(price_, spacing, baseAddress, quoteAddress, baseDecimals) ==
    \/ priceToSqrtRatioX96_throws(price_)
    \/ LET sqrtP == priceToSqrtRatioX96(baseAddress, quoteAddress, baseDecimals, price_)
       IN  \/ getTickAtSqrtRatio_throws(sqrtP)
           \/ nearestUsableTick_throws(MAX_TICK, spacing)

----------------------------------------------------------------------------
(* Prices of a sqrt ratio *)

tickToSqrtRatioX96(tick) == getSqrtRatioAtTick(tick)

tickToSqrtRatioX96_throws(tick) == getSqrtRatioAtTick_throws(tick)

sqrtRatioX96ToToken1PerToken0(sqrtRatioX96, token0Decimals) ==
    LET sqrtP == BigInt(toString(sqrtRatioX96))
        sqrtP2 == sqrtP * sqrtP
        scale0 == pow10(token0Decimals)
    IN  BigIntDiv(sqrtP2 * scale0, Q192)

sqrtRatioX96ToToken0PerToken1(sqrtRatioX96, token1Decimals) ==
    LET sqrtP == BigInt(toString(sqrtRatioX96))
        sqrtP2 == sqrtP * sqrtP
        scale1 == pow10(token1Decimals)
    IN  BigIntDiv(Q192 * scale1, sqrtP2)

\* the division by sqrtP2 has a zero divisor: RangeError
sqrtRatioX96ToToken0PerToken1_throws(sqrtRatioX96) ==
    BigInt(toString(sqrtRatioX96)) * BigInt(toString(sqrtRatioX96)) = 0

valueOfToken0AmountInToken1(amount0, sqrtPriceX96) ==
    BigIntDiv(amount0 * sqrtPriceX96 * sqrtPriceX96, Q192)

\* variant of valueOfToken1AmountInToken0 that rounds the quotient up
valueOfToken1AmountInToken0_roundedUp(amount1, sqrtPriceX96) ==
    BigIntDiv(amount1 * Q192 + sqrtPriceX96 * sqrtPriceX96 - 1,
              sqrtPriceX96 * sqrtPriceX96)

valueOfToken1AmountInToken0(amount1, sqrtPriceX96) ==
    BigIntDiv(amount1 * Q192, sqrtPriceX96 * sqrtPriceX96)

valueOfToken1AmountInToken0_throws(sqrtPriceX96) ==
    sqrtPriceX96 * sqrtPriceX96 = 0

\* variant of pricePerToken1InToken0 that converts in the other direction
pricePerToken1InToken0_otherDirection(sqrtPriceX96, token1Decimals) ==
    valueOfToken0AmountInToken1(pow10(token1Decimals), sqrtPriceX96)

pricePerToken1InToken0(sqrtPriceX96, token1Decimals) ==
    valueOfToken1AmountInToken0(pow10(token1Decimals), sqrtPriceX96)

pricePerToken1InToken0_throws(sqrtPriceX96) ==
    valueOfToken1AmountInToken0_throws(sqrtPriceX96)

pricePerToken0InToken1(sqrtPriceX96, token0Decimals) ==
    valueOfToken0AmountInToken1(pow10(token0Decimals), sqrtPriceX96)

----------------------------------------------------------------------------
(* Position value *)

\* getTokenAmountsFromLiquidity(liquidity, sqrtPriceCurrentX96, tickLower,
\*                              tickUpper, roundUp)
getTokenAmountsFromLiquidity(liq, sqrtCur, tickLo, tickUp, up) ==
    LET sqrtLo == toString(getSqrtRatioAtTick(tickLo))
        sqrtUp == toString(getSqrtRatioAtTick(tickUp))
    IN  getTokenAmountsFromLiquidity_X96(liq, sqrtCur, BigInt(sqrtLo),
                                         BigInt(sqrtUp), up)

getTokenAmountsFromLiquidity_throws(liq, sqrtCur, tickLo, tickUp) ==
    \/ getSqrtRatioAtTick_throws(tickLo)
    \/ getSqrtRatioAtTick_throws(tickUp)
    \/ getTokenAmountsFromLiquidity_X96_throws(liq, sqrtCur,
           getSqrtRatioAtTick(tickLo), getSqrtRatioAtTick(tickUp))

\* variant of calculatePositionValue that prices the quote token instead of
\* the base token
calculatePositionValue_pricesQuote(liq, sqrtCur, tickLo, tickUp, curPrice, baseIs0, baseDecimals) ==
    IF liq = 0 THEN 0
    ELSE LET a == getTokenAmountsFromLiquidity(liq, sqrtCur, tickLo, tickUp, FALSE)
         IN  IF baseIs0
             THEN a.token0Amount
                  + BigIntDiv(a.token1Amount * curPrice, pow10(baseDecimals))
             ELSE BigIntDiv(a.token0Amount * curPrice, pow10(baseDecimals))
                  + a.token1Amount

calculatePositionValue(liq, sqrtCur, tickLo, tickUp, curPrice, baseIs0, baseDecimals) ==
    IF liq = 0 THEN 0
    ELSE LET a == getTokenAmountsFromLiquidity(liq, sqrtCur, tickLo, tickUp, FALSE)
         IN  IF baseIs0
             THEN BigIntDiv(a.token0Amount * curPrice, pow10(baseDecimals))
                  + a.token1Amount
             ELSE a.token0Amount
                  + BigIntDiv(a.token1Amount * curPrice, pow10(baseDecimals))

calculatePositionValue_throws(liq, sqrtCur, tickLo, tickUp) ==
    liq # 0 /\ getTokenAmountsFromLiquidity_throws(liq, sqrtCur, tickLo, tickUp)

----------------------------------------------------------------------------
(* Profit and loss *)

\* the { pnl, pnlPercent } object calculatePnL returns.  pnlPercent is the
\* JavaScript number Number(q) / 100 of a bigint quotient q: it is kept as
\* that quotient, the percentage counted in hundredths of a percent
PnL(p, q) == [pnl |-> p, pnlPercent |-> q]

\* variant of calculatePnL that subtracts the wrong way round
calculatePnL_costMinusValue(curValue, cost) ==
    LET p == cost - curValue
    IN  PnL(p, IF cost > 0 THEN BigIntDiv(p * 10000, cost) ELSE 0)

calculatePnL(curValue, cost) ==
    LET p == curValue - cost
    IN  PnL(p, IF cost > 0 THEN BigIntDiv(p * 10000, cost) ELSE 0)

\* the division of calculatePnL is evaluated in the branch cost > 0n only;
\* it raises a RangeError when its divisor is 0n
calculatePnL_throws(curValue, cost) == cost > 0 /\ cost = 0

----------------------------------------------------------------------------
(* PnL curve *)

PnLPoint(price_, positionValue, pnl_, pnlPercent_, phase_) ==
    [price |-> price_, positionValue |-> positionValue, pnl |-> pnl_,
     pnlPercent |-> pnlPercent_, phase |-> phase_]

\* variant of PriceStep that rounds the step up
PriceStep_ceiling(min, max, n) ==
    BigIntDiv(max - min + n - 1, n)

\* const priceStep = (priceRange.max - priceRange.min) / BigInt(numPoints)
PriceStep(min, max, n) ==
    BigIntDiv(max - min, n)

\* the division by BigInt(numPoints) has a zero divisor: RangeError
PriceStep_throws(n) == n = 0

\* const price = priceRange.min + BigInt(i) * priceStep
SamplePrice(min, step, k) == min + k * step

\* variant of LoopCondition that stops one iteration early
LoopCondition_exclusive(k, n) == k < n

\* the condition i <= numPoints of the loop
LoopCondition(k, n) == k <= n

\* the body of the loop of generatePnLCurve: the point pushed for the
\* sample price price_
CurvePoint(liq, tickLo, tickUp, cost, baseAddress, quoteAddress, baseDecimals, spacing, baseIs0, price_) ==
    LET tick == priceToTick(price_, spacing, baseAddress, quoteAddress, baseDecimals)
        sqrtPriceX96 == BigInt(toString(getSqrtRatioAtTick(tick)))
        positionValue == calculatePositionValue(liq, sqrtPriceX96, tickLo, tickUp, price_, baseIs0, baseDecimals)
        r == calculatePnL(positionValue, cost)
    IN  PnLPoint(price_, positionValue, r.pnl, r.pnlPercent,
                 determinePhase(tick, tickLo, tickUp))

CurvePoint_throws(liq, tickLo, tickUp, baseAddress, quoteAddress, baseDecimals, spacing, price_) ==
    \/ priceToTick_throws(price_, spacing, baseAddress, quoteAddress, baseDecimals)
    \/ LET tick == priceToTick(price_, spacing, baseAddress, quoteAddress, baseDecimals)
       IN  \/ getSqrtRatioAtTick_throws(tick)
           \/ calculatePositionValue_throws(liq, getSqrtRatioAtTick(tick), tickLo, tickUp)

calculatePositionValueAtPrice(liq, tickLo, tickUp, targetPrice, baseAddress, quoteAddress, baseDecimals, spacing) ==
    LET targetTick == priceToTick(targetPrice, spacing, baseAddress, quoteAddress, baseDecimals)
        baseIs0 == BigInt(baseAddress) < BigInt(quoteAddress)
        sqrtPriceX96 == BigInt(toString(getSqrtRatioAtTick(targetTick)))
    IN  calculatePositionValue(liq, sqrtPriceX96, tickLo, tickUp, targetPrice, baseIs0, baseDecimals)

calculatePositionValueAtPrice_throws(liq, tickLo, tickUp, targetPrice, baseAddress, quoteAddress, baseDecimals, spacing) ==
    CurvePoint_throws(liq, tickLo, tickUp, baseAddress, quoteAddress, baseDecimals, spacing, targetPrice)

----------------------------------------------------------------------------
(* Addresses and the base / quote mapping *)

\* /^0x[a-fA-F0-9]{40}$/i
isValidAddress(address) ==
    /\ Len(address) = AddressLength
    /\ \A k \in 1 .. Len(address) : address[k] \in HexChars

\* getAddress of viem: the EIP-55 form of the address, which is the same for
\* every casing of the same hexadecimal digits
getAddress(address) ==
    [k \in 1 .. Len(address) |-> IF address[k] = "a" THEN "A" ELSE address[k]]

normalizeAddress(address) == getAddress(address)

normalizeAddress_throws(address) == ~isValidAddress(address)

sameAddress(a, b) == normalizeAddress(a) = normalizeAddress(b)

sameAddress_throws(a, b) == normalizeAddress_throws(a) \/ normalizeAddress_throws(b)

\* the message of the error getTokenMapping throws, "" when it returns; the
\* statements are evaluated in the order of the source, and a statement that
\* normalizes a malformed address throws there
getTokenMapping_error(token0Addr, token1Addr, baseAddress, quoteAddress) ==
    IF sameAddress_throws(baseAddress, token0Addr)
    THEN "Invalid Ethereum address"
    ELSE IF sameAddress_throws(quoteAddress, token0Addr)
    THEN "Invalid Ethereum address"
    ELSE LET baseIs0 == sameAddress(baseAddress, token0Addr)
             quoteIs0 == sameAddress(quoteAddress, token0Addr)
         IN  IF baseIs0 /\ quoteIs0
             THEN "Base and quote cannot be the same token"
             ELSE IF ~baseIs0 /\ sameAddress_throws(baseAddress, token1Addr)
             THEN "Invalid Ethereum address"
             ELSE IF ~baseIs0 /\ ~sameAddress(baseAddress, token1Addr)
             THEN "Base token must be token0 or token1"
             ELSE IF ~quoteIs0 /\ sameAddress_throws(quoteAddress, token1Addr)
             THEN "Invalid Ethereum address"
             ELSE IF ~quoteIs0 /\ ~sameAddress(quoteAddress, token1Addr)
             THEN "Quote token must be token0 or token1"
             ELSE ""

getTokenMapping_throws(token0Addr, token1Addr, baseAddress, quoteAddress) ==
    getTokenMapping_error(token0Addr, token1Addr, baseAddress, quoteAddress) # ""

getTokenMapping(token0Addr, token1Addr, baseAddress, quoteAddress) ==
    [baseIsToken0 |-> sameAddress(baseAddress, token0Addr),
     quoteIsToken0 |-> sameAddress(quoteAddress, token0Addr)]

----------------------------------------------------------------------------
(* State *)

VARIABLES
    pc,                   \* "start", or the name of the function that has run
    liquidity,            \* argument: liquidity
    sqrtPriceCurrentX96,  \* argument: current sqrt price
    sqrtPriceLowerX96,    \* argument: lower bound of the range
    sqrtPriceUpperX96,    \* argument: upper bound of the range
    roundUp,              \* argument: rounding mode
    token0Amount,         \* token0 amount: argument or returned TokenAmounts
    token1Amount,         \* token1 amount: argument or returned TokenAmounts
    result,               \* returned bigint of the scalar functions
    threw,                \* the call raised an error
    baseAmount,           \* argument: base token amount of the budget
    quoteAmount,          \* argument: quote token amount of the budget
    isQuoteToken0,        \* argument: the quote token is token0
    tickCurrent,          \* argument: current tick
    tickLower,            \* argument: lower tick of the range
    tickUpper,            \* argument: upper tick of the range
    feeGrowthGlobal0,     \* argument: global fee growth, token0
    feeGrowthGlobal1,     \* argument: global fee growth, token1
    feeGrowthOutsideLower0, \* argument: fee growth outside the lower tick
    feeGrowthOutsideLower1,
    feeGrowthOutsideUpper0, \* argument: fee growth outside the upper tick
    feeGrowthOutsideUpper1,
    inside0,              \* returned FeeGrowthInside
    inside1,
    feeGrowthInsideCurrent, \* argument of calculateIncrementalFees / a of safeDiff
    feeGrowthInsideLast,  \* argument of calculateIncrementalFees / b of safeDiff
    phase,                \* returned PositionPhase
    price,                \* argument: price of the base token in quote units
    tickSpacing,          \* argument: tick spacing of the pool
    baseTokenAddress,     \* argument: address of the base token
    quoteTokenAddress,    \* argument: address of the quote token
    baseTokenDecimals,    \* argument: decimals of the base token
    baseIsToken0,         \* argument or local: the base token is token0
    currentValue,         \* argument of calculatePnL
    costBasis,            \* argument: cost basis
    pnl,                  \* returned pnl
    pnlPercent,           \* returned pnlPercent, in hundredths of a percent
    priceMin,             \* argument: priceRange.min
    priceMax,             \* argument: priceRange.max
    numPoints,            \* argument: numPoints
    priceStep,            \* local of generatePnLCurve
    i,                    \* loop counter of generatePnLCurve
    points,               \* local of generatePnLCurve: the points pushed so far
    curve,                \* the array generatePnLCurve returned
    token0Address,        \* argument: address of token0 of the pool
    token1Address,        \* argument: address of token1 of the pool
    quoteIsToken0,        \* returned by getTokenMapping
    error                 \* message of the error thrown, "" when none

liqArgs == <<liquidity, sqrtPriceCurrentX96, sqrtPriceLowerX96,
             sqrtPriceUpperX96, roundUp>>
liqOut == <<token0Amount, token1Amount>>
investArgs == <<baseAmount, quoteAmount, isQuoteToken0>>
tickArgs == <<tickCurrent, tickLower, tickUpper>>
feeArgs == <<feeGrowthGlobal0, feeGrowthGlobal1, feeGrowthOutsideLower0,
             feeGrowthOutsideLower1, feeGrowthOutsideUpper0,
             feeGrowthOutsideUpper1>>
feeOut == <<inside0, inside1>>
incArgs == <<feeGrowthInsideCurrent, feeGrowthInsideLast>>
priceArgs == <<price, tickSpacing, baseTokenAddress, quoteTokenAddress,
               baseTokenDecimals, baseIsToken0>>
pnlArgs == <<currentValue, costBasis>>
pnlOut == <<pnl, pnlPercent>>
curveArgs == <<priceMin, priceMax, numPoints>>
curveLocals == <<priceStep, i, points>>
mappingArgs == <<token0Address, token1Address>>
mappingOut == <<quoteIsToken0, error>>
valuation == <<priceArgs, pnlArgs, pnlOut, curveArgs, curveLocals, curve,
               mappingArgs, mappingOut>>

vars == <<pc, liqArgs, liqOut, result, threw, investArgs, tickArgs, feeArgs,
          feeOut, incArgs, phase, valuation>>

\* the parts of the state a specification does not use stay at rest
NoLiquidityCall ==
    /\ liquidity = 0
    /\ sqrtPriceCurrentX96 = 0
    /\ sqrtPriceLowerX96 = 0
    /\ sqrtPriceUpperX96 = 0
    /\ roundUp = FALSE
    /\ token0Amount = 0
    /\ token1Amount = 0

NoInvestment ==
    /\ baseAmount = 0
    /\ quoteAmount = 0
    /\ isQuoteToken0 = FALSE

NoTicks ==
    /\ tickCurrent = 0
    /\ tickLower = 0
    /\ tickUpper = 0

NoFeeGrowth ==
    /\ feeGrowthGlobal0 = 0
    /\ feeGrowthGlobal1 = 0
    /\ feeGrowthOutsideLower0 = 0
    /\ feeGrowthOutsideLower1 = 0
    /\ feeGrowthOutsideUpper0 = 0
    /\ feeGrowthOutsideUpper1 = 0
    /\ inside0 = 0
    /\ inside1 = 0

NoIncrementalFees ==
    /\ feeGrowthInsideCurrent = 0
    /\ feeGrowthInsideLast = 0

NoPhase == phase = "none"

NoPrice ==
    /\ price = 0
    /\ tickSpacing = 0
    /\ baseTokenAddress = << >>
    /\ quoteTokenAddress = << >>
    /\ baseTokenDecimals = 0
    /\ baseIsToken0 = FALSE

NoPnL ==
    /\ currentValue = 0
    /\ costBasis = 0
    /\ pnl = 0
    /\ pnlPercent = 0

NoCurve ==
    /\ priceMin = 0
    /\ priceMax = 0
    /\ numPoints = 0
    /\ priceStep = 0
    /\ i = 0
    /\ points = << >>
    /\ curve = << >>

NoMapping ==
    /\ token0Address = << >>
    /\ token1Address = << >>
    /\ quoteIsToken0 = FALSE
    /\ error = ""

NoValuation == NoPrice /\ NoPnL /\ NoCurve /\ NoMapping

otherThanLiq == <<investArgs, tickArgs, feeArgs, feeOut, incArgs, phase,
                  valuation>>

----------------------------------------------------------------------------
(* Specification of the liquidity conversion engine *)

InitLiq ==
    /\ pc = "start"
    /\ liquidity \in Liquidities
    /\ sqrtPriceCurrentX96 \in SqrtPrices
    /\ sqrtPriceLowerX96 \in SqrtPrices
    /\ sqrtPriceUpperX96 \in SqrtPrices
    /\ roundUp \in BOOLEAN
    /\ token0Amount = 0
    /\ token1Amount = 0
    /\ result = 0
    /\ threw = FALSE
    /\ NoInvestment /\ NoTicks /\ NoFeeGrowth /\ NoIncrementalFees /\ NoPhase
    /\ NoValuation

\* getAmount0FromLiquidity(sqrtPriceLowerX96, sqrtPriceUpperX96, liquidity, roundUp)
CallGetAmount0FromLiquidity ==
    /\ pc = "start"
    /\ pc' = "getAmount0FromLiquidity"
    /\ threw' = getAmount0FromLiquidity_throws(sqrtPriceLowerX96,
                    sqrtPriceUpperX96, liquidity)
    /\ result' = IF threw' THEN 0
                 ELSE getAmount0FromLiquidity(sqrtPriceLowerX96,
                          sqrtPriceUpperX96, liquidity, roundUp)
    /\ UNCHANGED <<liqArgs, token0Amount, token1Amount, otherThanLiq>>

\* getAmount1FromLiquidity(sqrtPriceLowerX96, sqrtPriceUpperX96, liquidity, roundUp)
CallGetAmount1FromLiquidity ==
    /\ pc = "start"
    /\ pc' = "getAmount1FromLiquidity"
    /\ threw' = FALSE
    /\ result' = getAmount1FromLiquidity(sqrtPriceLowerX96, sqrtPriceUpperX96,
                     liquidity, roundUp)
    /\ UNCHANGED <<liqArgs, token0Amount, token1Amount, otherThanLiq>>

\* getLiquidityFromAmount0(sqrtPriceLowerX96, sqrtPriceUpperX96, amount0, roundUp)
CallGetLiquidityFromAmount0 ==
    /\ pc = "start"
    /\ \E amount0 \in Amounts :
        /\ token0Amount' = amount0
        /\ result' = getLiquidityFromAmount0(sqrtPriceLowerX96,
                         sqrtPriceUpperX96, amount0, roundUp)
    /\ pc' = "getLiquidityFromAmount0"
    /\ threw' = FALSE
    /\ UNCHANGED <<liqArgs, token1Amount, otherThanLiq>>

\* getLiquidityFromAmount1(sqrtPriceLowerX96, sqrtPriceUpperX96, amount1, roundUp)
CallGetLiquidityFromAmount1 ==
    /\ pc = "start"
    /\ \E amount1 \in Amounts :
        /\ token1Amount' = amount1
        /\ result' = getLiquidityFromAmount1(sqrtPriceLowerX96,
                         sqrtPriceUpperX96, amount1, roundUp)
    /\ pc' = "getLiquidityFromAmount1"
    /\ threw' = FALSE
    /\ UNCHANGED <<liqArgs, token0Amount, otherThanLiq>>

\* getTokenAmountsFromLiquidity_X96(liquidity, sqrtPriceCurrentX96,
\*     sqrtPriceLowerX96, sqrtPriceUpperX96, roundUp)
CallGetTokenAmountsFromLiquidity_X96 ==
    /\ pc = "start"
    /\ pc' = "getTokenAmountsFromLiquidity_X96"
    /\ threw' = getTokenAmountsFromLiquidity_X96_throws(liquidity,
                    sqrtPriceCurrentX96, sqrtPriceLowerX96, sqrtPriceUpperX96)
    /\ LET amounts == getTokenAmountsFromLiquidity_X96(liquidity,
                          sqrtPriceCurrentX96, sqrtPriceLowerX96,
                          sqrtPriceUpperX96, roundUp)
       IN  /\ token0Amount' = IF threw' THEN 0 ELSE amounts.token0Amount
           /\ token1Amount' = IF threw' THEN 0 ELSE amounts.token1Amount
    /\ UNCHANGED <<liqArgs, result, otherThanLiq>>

\* getLiquidityFromTokenAmounts_X96 on amounts the caller holds
CallGetLiquidityFromTokenAmounts_X96 ==
    /\ pc = "start"
    /\ \E amount0 \in Amounts, amount1 \in Amounts :
        /\ token0Amount' = amount0
        /\ token1Amount' = amount1
        /\ result' = getLiquidityFromTokenAmounts_X96(sqrtPriceCurrentX96,
                         sqrtPriceLowerX96, sqrtPriceUpperX96, amount0, amount1)
    /\ pc' = "getLiquidityFromTokenAmounts_X96"
    /\ threw' = FALSE
    /\ UNCHANGED <<liqArgs, otherThanLiq>>

\* the round trip of liquidity.test.ts: the amounts returned by
\* getTokenAmountsFromLiquidity_X96 are fed back into
\* getLiquidityFromTokenAmounts_X96 with the same three sqrt prices
CallRoundTrip ==
    /\ pc = "getTokenAmountsFromLiquidity_X96"
    /\ ~threw
    /\ pc' = "roundTrip"
    /\ result' = getLiquidityFromTokenAmounts_X96(sqrtPriceCurrentX96,
                     sqrtPriceLowerX96, sqrtPriceUpperX96,
                     token0Amount, token1Amount)
    /\ UNCHANGED <<liqArgs, token0Amount, token1Amount, threw, otherThanLiq>>

\* the single-sided round trips: the amount returned by
\* getAmount0FromLiquidity (getAmount1FromLiquidity) is fed back into
\* getLiquidityFromAmount0 (getLiquidityFromAmount1) with the same bounds
\* and the same rounding mode
CallAmount0RoundTrip ==
    /\ pc = "getAmount0FromLiquidity"
    /\ ~threw
    /\ pc' = "amount0RoundTrip"
    /\ token0Amount' = result
    /\ result' = getLiquidityFromAmount0(sqrtPriceLowerX96, sqrtPriceUpperX96,
                     result, roundUp)
    /\ UNCHANGED <<liqArgs, token1Amount, threw, otherThanLiq>>

CallAmount1RoundTrip ==
    /\ pc = "getAmount1FromLiquidity"
    /\ ~threw
    /\ pc' = "amount1RoundTrip"
    /\ token1Amount' = result
    /\ result' = getLiquidityFromAmount1(sqrtPriceLowerX96, sqrtPriceUpperX96,
                     result, roundUp)
    /\ UNCHANGED <<liqArgs, token0Amount, threw, otherThanLiq>>

NextLiq ==
    \/ CallAmount0RoundTrip
    \/ CallAmount1RoundTrip
    \/ CallGetAmount0FromLiquidity
    \/ CallGetAmount1FromLiquidity
    \/ CallGetLiquidityFromAmount0
    \/ CallGetLiquidityFromAmount1
    \/ CallGetTokenAmountsFromLiquidity_X96
    \/ CallGetLiquidityFromTokenAmounts_X96
    \/ CallRoundTrip

SpecLiq == InitLiq /\ [][NextLiq]_vars

----------------------------------------------------------------------------
(* Specification of the investment sizing *)

InitInvest ==
    /\ pc = "start"
    /\ baseAmount \in Investments
    /\ quoteAmount \in Investments
    /\ isQuoteToken0 \in BOOLEAN
    /\ sqrtPriceCurrentX96 \in SqrtPrices
    /\ sqrtPriceLowerX96 \in SqrtPrices
    /\ sqrtPriceUpperX96 \in SqrtPrices
    /\ liquidity = 0
    /\ roundUp = FALSE
    /\ token0Amount = 0
    /\ token1Amount = 0
    /\ result = 0
    /\ threw = FALSE
    /\ NoTicks /\ NoFeeGrowth /\ NoIncrementalFees /\ NoPhase
    /\ NoValuation

\* getLiquidityFromInvestmentAmounts(baseAmount, _, quoteAmount, _,
\*     isQuoteToken0, sqrtPriceLowerX96, sqrtPriceUpperX96, sqrtPriceCurrentX96)
CallGetLiquidityFromInvestmentAmounts ==
    /\ pc = "start"
    /\ pc' = "getLiquidityFromInvestmentAmounts"
    /\ threw' = getLiquidityFromInvestmentAmounts_throws(baseAmount,
                    quoteAmount, isQuoteToken0, sqrtPriceLowerX96,
                    sqrtPriceUpperX96, sqrtPriceCurrentX96)
    /\ result' = IF threw' THEN 0
                 ELSE getLiquidityFromInvestmentAmounts(baseAmount,
                          quoteAmount, isQuoteToken0, sqrtPriceLowerX96,
                          sqrtPriceUpperX96, sqrtPriceCurrentX96)
    /\ UNCHANGED <<liqArgs, liqOut, otherThanLiq>>

\* the position the sized liquidity buys: getTokenAmountsFromLiquidity_X96 on
\* the returned liquidity at the prices of the sizing call, rounded down
CallGetAmountsOfSizedLiquidity ==
    /\ pc = "getLiquidityFromInvestmentAmounts"
    /\ ~threw
    /\ pc' = "amountsOfSizedLiquidity"
    /\ liquidity' = result
    /\ threw' = getTokenAmountsFromLiquidity_X96_throws(result,
                    sqrtPriceCurrentX96, sqrtPriceLowerX96, sqrtPriceUpperX96)
    /\ LET amounts == getTokenAmountsFromLiquidity_X96(result,
                          sqrtPriceCurrentX96, sqrtPriceLowerX96,
                          sqrtPriceUpperX96, FALSE)
       IN  /\ token0Amount' = IF threw' THEN 0 ELSE amounts.token0Amount
           /\ token1Amount' = IF threw' THEN 0 ELSE amounts.token1Amount
    /\ UNCHANGED <<sqrtPriceCurrentX96, sqrtPriceLowerX96, sqrtPriceUpperX96,
                   roundUp, result, otherThanLiq>>

NextInvest ==
    \/ CallGetLiquidityFromInvestmentAmounts
    \/ CallGetAmountsOfSizedLiquidity

SpecInvest == InitInvest /\ [][NextInvest]_vars

----------------------------------------------------------------------------
(* Specification of computeFeeGrowthInside *)

InitFeeGrowth ==
    /\ pc = "start"
    /\ tickCurrent \in Ticks
    /\ tickLower \in Ticks
    /\ tickUpper \in Ticks
    /\ feeGrowthGlobal0 \in FeeGrowths
    /\ feeGrowthGlobal1 \in FeeGrowths
    /\ feeGrowthOutsideLower0 \in FeeGrowths
    /\ feeGrowthOutsideLower1 \in FeeGrowths
    /\ feeGrowthOutsideUpper0 \in FeeGrowths
    /\ feeGrowthOutsideUpper1 \in FeeGrowths
    /\ inside0 = 0
    /\ inside1 = 0
    /\ result = 0
    /\ threw = FALSE
    /\ NoLiquidityCall /\ NoInvestment /\ NoIncrementalFees /\ NoPhase
    /\ NoValuation

CallComputeFeeGrowthInside ==
    /\ pc = "start"
    /\ pc' = "computeFeeGrowthInside"
    /\ LET r == computeFeeGrowthInside(tickCurrent, tickLower, tickUpper,
                    feeGrowthGlobal0, feeGrowthGlobal1,
                    feeGrowthOutsideLower0, feeGrowthOutsideLower1,
                    feeGrowthOutsideUpper0, feeGrowthOutsideUpper1)
       IN  /\ inside0' = r.inside0
           /\ inside1' = r.inside1
    /\ UNCHANGED <<liqArgs, liqOut, result, threw, investArgs, tickArgs,
                   feeArgs, incArgs, phase, valuation>>

NextFeeGrowth == CallComputeFeeGrowthInside

SpecFeeGrowth == InitFeeGrowth /\ [][NextFeeGrowth]_vars

----------------------------------------------------------------------------
(* Specification of safeDiff and calculateIncrementalFees *)

InitFees ==
    /\ pc = "start"
    /\ feeGrowthInsideCurrent \in FeeGrowthsInside
    /\ feeGrowthInsideLast \in FeeGrowthsInside
    /\ liquidity \in Liquidities
    /\ sqrtPriceCurrentX96 = 0
    /\ sqrtPriceLowerX96 = 0
    /\ sqrtPriceUpperX96 = 0
    /\ roundUp = FALSE
    /\ token0Amount = 0
    /\ token1Amount = 0
    /\ result = 0
    /\ threw = FALSE
    /\ NoInvestment /\ NoTicks /\ NoFeeGrowth /\ NoPhase
    /\ NoValuation

\* safeDiff(feeGrowthInsideCurrent, feeGrowthInsideLast)
CallSafeDiff ==
    /\ pc = "start"
    /\ pc' = "safeDiff"
    /\ result' = safeDiff(feeGrowthInsideCurrent, feeGrowthInsideLast)
    /\ UNCHANGED <<liqArgs, liqOut, threw, otherThanLiq>>

\* calculateIncrementalFees(feeGrowthInsideCurrent, feeGrowthInsideLast, liquidity)
CallCalculateIncrementalFees ==
    /\ pc = "start"
    /\ pc' = "calculateIncrementalFees"
    /\ result' = calculateIncrementalFees(feeGrowthInsideCurrent,
                     feeGrowthInsideLast, liquidity)
    /\ UNCHANGED <<liqArgs, liqOut, threw, otherThanLiq>>

NextFees ==
    \/ CallSafeDiff
    \/ CallCalculateIncrementalFees

SpecFees == InitFees /\ [][NextFees]_vars

----------------------------------------------------------------------------
(* Specification of determinePhase *)

InitPhase ==
    /\ pc = "start"
    /\ tickCurrent \in Ticks
    /\ tickLower \in Ticks
    /\ tickUpper \in Ticks
    /\ phase = "none"
    /\ result = 0
    /\ threw = FALSE
    /\ NoLiquidityCall /\ NoInvestment /\ NoFeeGrowth /\ NoIncrementalFees
    /\ NoValuation

CallDeterminePhase ==
    /\ pc = "start"
    /\ pc' = "determinePhase"
    /\ phase' = determinePhase(tickCurrent, tickLower, tickUpper)
    /\ UNCHANGED <<liqArgs, liqOut, result, threw, investArgs, tickArgs,
                   feeArgs, feeOut, incArgs, valuation>>

NextPhase == CallDeterminePhase

SpecPhase == InitPhase /\ [][NextPhase]_vars

----------------------------------------------------------------------------
(* Specification of calculatePnL *)

InitPnL ==
    /\ pc = "start"
    /\ currentValue \in Values
    /\ costBasis \in CostBases
    /\ pnl = 0
    /\ pnlPercent = 0
    /\ result = 0
    /\ threw = FALSE
    /\ NoLiquidityCall /\ NoInvestment /\ NoTicks /\ NoFeeGrowth
    /\ NoIncrementalFees /\ NoPhase /\ NoPrice /\ NoCurve /\ NoMapping

CallCalculatePnL ==
    /\ pc = "start"
    /\ pc' = "calculatePnL"
    /\ threw' = calculatePnL_throws(currentValue, costBasis)
    /\ LET r == calculatePnL(currentValue, costBasis)
       IN  /\ pnl' = IF threw' THEN 0 ELSE r.pnl
           /\ pnlPercent' = IF threw' THEN 0 ELSE r.pnlPercent
    /\ UNCHANGED <<liqArgs, liqOut, result, investArgs, tickArgs, feeArgs,
                   feeOut, incArgs, phase, priceArgs, pnlArgs, curveArgs,
                   curveLocals, curve, mappingArgs, mappingOut>>

NextPnL == CallCalculatePnL

SpecPnL == InitPnL /\ [][NextPnL]_vars

----------------------------------------------------------------------------
(* Specification of calculatePositionValue *)

\* the ticks a caller can pass: the valid ticks and one tick beyond each end
PoolTicks == (MIN_TICK - 1) .. (MAX_TICK + 1)

InitValue ==
    /\ pc = "start"
    /\ liquidity \in Liquidities
    /\ sqrtPriceCurrentX96 \in SqrtPrices
    /\ tickLower \in PoolTicks
    /\ tickUpper \in PoolTicks
    /\ price \in Prices
    /\ baseIsToken0 \in BOOLEAN
    /\ baseTokenDecimals \in Decimals
    /\ tickCurrent = 0
    /\ sqrtPriceLowerX96 = 0
    /\ sqrtPriceUpperX96 = 0
    /\ roundUp = FALSE
    /\ token0Amount = 0
    /\ token1Amount = 0
    /\ tickSpacing = 0
    /\ baseTokenAddress = << >>
    /\ quoteTokenAddress = << >>
    /\ result = 0
    /\ threw = FALSE
    /\ NoInvestment /\ NoFeeGrowth /\ NoIncrementalFees /\ NoPhase
    /\ NoPnL /\ NoCurve /\ NoMapping

\* calculatePositionValue(liquidity, sqrtPriceCurrentX96, tickLower,
\*     tickUpper, price, baseIsToken0, baseTokenDecimals)
CallCalculatePositionValue ==
    /\ pc = "start"
    /\ pc' = "calculatePositionValue"
    /\ threw' = calculatePositionValue_throws(liquidity, sqrtPriceCurrentX96,
                    tickLower, tickUpper)
    /\ result' = IF threw' THEN 0
                 ELSE calculatePositionValue(liquidity, sqrtPriceCurrentX96,
                          tickLower, tickUpper, price, baseIsToken0,
                          baseTokenDecimals)
    /\ UNCHANGED <<liqArgs, liqOut, otherThanLiq>>

NextValue == CallCalculatePositionValue

SpecValue == InitValue /\ [][NextValue]_vars

----------------------------------------------------------------------------
(* Specification of the sqrt ratio conversions *)

\* the sqrt ratios a caller can pass: 0 and everything up to the largest
\* sqrt ratio of a tick
SqrtRatios == 0 .. MAX_SQRT_RATIO

\* baseTokenDecimals holds the decimals argument of the function called
\* (token0Decimals or token1Decimals)
InitSqrtPrice ==
    /\ pc = "start"
    /\ tickCurrent \in PoolTicks
    /\ sqrtPriceCurrentX96 \in SqrtRatios
    /\ baseTokenDecimals \in Decimals
    /\ liquidity = 0
    /\ sqrtPriceLowerX96 = 0
    /\ sqrtPriceUpperX96 = 0
    /\ roundUp = FALSE
    /\ token0Amount = 0
    /\ token1Amount = 0
    /\ tickLower = 0
    /\ tickUpper = 0
    /\ price = 0
    /\ tickSpacing = 0
    /\ baseTokenAddress = << >>
    /\ quoteTokenAddress = << >>
    /\ baseIsToken0 = FALSE
    /\ result = 0
    /\ threw = FALSE
    /\ NoInvestment /\ NoFeeGrowth /\ NoIncrementalFees /\ NoPhase
    /\ NoPnL /\ NoCurve /\ NoMapping

CallTickToSqrtRatioX96 ==
    /\ pc = "start"
    /\ pc' = "tickToSqrtRatioX96"
    /\ threw' = tickToSqrtRatioX96_throws(tickCurrent)
    /\ result' = IF threw' THEN 0 ELSE tickToSqrtRatioX96(tickCurrent)
    /\ UNCHANGED <<liqArgs, liqOut, otherThanLiq>>

CallSqrtRatioX96ToToken1PerToken0 ==
    /\ pc = "start"
    /\ pc' = "sqrtRatioX96ToToken1PerToken0"
    /\ threw' = FALSE
    /\ result' = sqrtRatioX96ToToken1PerToken0(sqrtPriceCurrentX96,
                     baseTokenDecimals)
    /\ UNCHANGED <<liqArgs, liqOut, otherThanLiq>>

CallSqrtRatioX96ToToken0PerToken1 ==
    /\ pc = "start"
    /\ pc' = "sqrtRatioX96ToToken0PerToken1"
    /\ threw' = sqrtRatioX96ToToken0PerToken1_throws(sqrtPriceCurrentX96)
    /\ result' = IF threw' THEN 0
                 ELSE sqrtRatioX96ToToken0PerToken1(sqrtPriceCurrentX96,
                          baseTokenDecimals)
    /\ UNCHANGED <<liqArgs, liqOut, otherThanLiq>>

CallPricePerToken1InToken0 ==
    /\ pc = "start"
    /\ pc' = "pricePerToken1InToken0"
    /\ threw' = pricePerToken1InToken0_throws(sqrtPriceCurrentX96)
    /\ result' = IF threw' THEN 0
                 ELSE pricePerToken1InToken0(sqrtPriceCurrentX96,
                          baseTokenDecimals)
    /\ UNCHANGED <<liqArgs, liqOut, otherThanLiq>>

CallPricePerToken0InToken1 ==
    /\ pc = "start"
    /\ pc' = "pricePerToken0InToken1"
    /\ threw' = FALSE
    /\ result' = pricePerToken0InToken1(sqrtPriceCurrentX96,
                     baseTokenDecimals)
    /\ UNCHANGED <<liqArgs, liqOut, otherThanLiq>>

NextSqrtPrice ==
    \/ CallTickToSqrtRatioX96
    \/ CallSqrtRatioX96ToToken1PerToken0
    \/ CallSqrtRatioX96ToToken0PerToken1
    \/ CallPricePerToken1InToken0
    \/ CallPricePerToken0InToken1

SpecSqrtPrice == InitSqrtPrice /\ [][NextSqrtPrice]_vars

----------------------------------------------------------------------------
(* The calls on a price: conversions, position value at a price, PnL curve *)

\* priceToSqrtRatioX96(baseTokenAddress, quoteTokenAddress,
\*                     baseTokenDecimals, price)
CallPriceToSqrtRatioX96 ==
    /\ pc = "start"
    /\ pc' = "priceToSqrtRatioX96"
    /\ threw' = priceToSqrtRatioX96_throws(price)
    /\ result' = IF threw' THEN 0
                 ELSE priceToSqrtRatioX96(baseTokenAddress, quoteTokenAddress,
                          baseTokenDecimals, price)
    /\ UNCHANGED <<liqArgs, liqOut, otherThanLiq>>

\* priceToTick(price, tickSpacing, baseTokenAddress, quoteTokenAddress,
\*             baseTokenDecimals)
CallPriceToTick ==
    /\ pc = "start"
    /\ pc' = "priceToTick"
    /\ threw' = priceToTick_throws(price, tickSpacing, baseTokenAddress,
                    quoteTokenAddress, baseTokenDecimals)
    /\ result' = IF threw' THEN 0
                 ELSE priceToTick(price, tickSpacing, baseTokenAddress,
                          quoteTokenAddress, baseTokenDecimals)
    /\ UNCHANGED <<liqArgs, liqOut, otherThanLiq>>

\* priceToClosestUsableTick(price, tickSpacing, baseTokenAddress,
\*                          quoteTokenAddress, baseTokenDecimals)
CallPriceToClosestUsableTick ==
    /\ pc = "start"
    /\ pc' = "priceToClosestUsableTick"
    /\ threw' = priceToClosestUsableTick_throws(price, tickSpacing,
                    baseTokenAddress, quoteTokenAddress, baseTokenDecimals)
    /\ result' = IF threw' THEN 0
                 ELSE priceToClosestUsableTick(price, tickSpacing,
                          baseTokenAddress, quoteTokenAddress,
                          baseTokenDecimals)
    /\ UNCHANGED <<liqArgs, liqOut, otherThanLiq>>

\* calculatePositionValueAtPrice(liquidity, tickLower, tickUpper, price,
\*     baseTokenAddress, quoteTokenAddress, baseTokenDecimals, tickSpacing)
CallCalculatePositionValueAtPrice ==
    /\ pc = "start"
    /\ pc' = "calculatePositionValueAtPrice"
    /\ threw' = calculatePositionValueAtPrice_throws(liquidity, tickLower,
                    tickUpper, price, baseTokenAddress, quoteTokenAddress,
                    baseTokenDecimals, tickSpacing)
    /\ result' = IF threw' THEN 0
                 ELSE calculatePositionValueAtPrice(liquidity, tickLower,
                          tickUpper, price, baseTokenAddress,
                          quoteTokenAddress, baseTokenDecimals, tickSpacing)
    /\ UNCHANGED <<liqArgs, liqOut, otherThanLiq>>

\* generatePnLCurve, up to the loop: the step and the token order
CallGeneratePnLCurve ==
    /\ pc = "start"
    /\ points' = << >>
    /\ i' = 0
    /\ IF PriceStep_throws(numPoints)
       THEN /\ pc' = "generatePnLCurve"
            /\ threw' = TRUE
            /\ UNCHANGED <<priceStep, baseIsToken0>>
       ELSE /\ pc' = "loop"
            /\ priceStep' = PriceStep(priceMin, priceMax, numPoints)
            /\ baseIsToken0' = (BigInt(baseTokenAddress) < BigInt(quoteTokenAddress))
            /\ UNCHANGED threw
    /\ UNCHANGED <<liqArgs, liqOut, result, investArgs, tickArgs, feeArgs,
                   feeOut, incArgs, phase, price, tickSpacing,
                   baseTokenAddress, quoteTokenAddress, baseTokenDecimals,
                   pnlArgs, pnlOut, curveArgs, curve, mappingArgs,
                   mappingOut>>

\* one iteration of the loop: a point is pushed, or the iteration throws and
\* generatePnLCurve ends without returning
LoopIteration ==
    /\ pc = "loop"
    /\ LoopCondition(i, numPoints)
    /\ LET samplePrice == SamplePrice(priceMin, priceStep, i)
       IN  IF CurvePoint_throws(liquidity, tickLower, tickUpper,
                  baseTokenAddress, quoteTokenAddress, baseTokenDecimals,
                  tickSpacing, samplePrice)
           THEN /\ pc' = "generatePnLCurve"
                /\ threw' = TRUE
                /\ UNCHANGED <<i, points>>
           ELSE /\ points' = Append(points,
                        CurvePoint(liquidity, tickLower, tickUpper, costBasis,
                            baseTokenAddress, quoteTokenAddress,
                            baseTokenDecimals, tickSpacing, baseIsToken0,
                            samplePrice))
                /\ i' = i + 1
                /\ UNCHANGED <<pc, threw>>
    /\ UNCHANGED <<liqArgs, liqOut, result, investArgs, tickArgs, feeArgs,
                   feeOut, incArgs, phase, priceArgs, pnlArgs, pnlOut,
                   curveArgs, priceStep, curve, mappingArgs, mappingOut>>

\* return points
LoopExit ==
    /\ pc = "loop"
    /\ ~LoopCondition(i, numPoints)
    /\ pc' = "generatePnLCurve"
    /\ curve' = points
    /\ UNCHANGED <<liqArgs, liqOut, result, threw, investArgs, tickArgs,
                   feeArgs, feeOut, incArgs, phase, priceArgs, pnlArgs,
                   pnlOut, curveArgs, curveLocals, mappingArgs, mappingOut>>

----------------------------------------------------------------------------
(* Specification of the calls on a price *)

(***************************************************************************)
(* Every call is made on the same price, of any sign and size: the price   *)
(* conversions and calculatePositionValueAtPrice take it as their price,   *)
(* generatePnLCurve as the start of its price range, which runs down to 0, *)
(* stays at the price or runs up to the largest price.  The position is    *)
(* the full valid tick range.                                              *)
(***************************************************************************)
InitPrice ==
    /\ pc = "start"
    /\ price \in QuotedPrices
    /\ tickSpacing \in TickSpacings
    /\ baseTokenAddress \in Addresses
    /\ quoteTokenAddress \in Addresses
    /\ baseTokenDecimals \in Decimals
    /\ priceMin = price
    /\ priceMax \in {0, price, MaxQuotedPrice}
    /\ numPoints \in 0 .. MaxPoints
    /\ liquidity = MaxLiquidity
    /\ tickLower = MIN_TICK
    /\ tickUpper = MAX_TICK
    /\ costBasis = MaxValue
    /\ baseIsToken0 = FALSE
    /\ priceStep = 0
    /\ i = 0
    /\ points = << >>
    /\ curve = << >>
    /\ currentValue = 0
    /\ pnl = 0
    /\ pnlPercent = 0
    /\ tickCurrent = 0
    /\ sqrtPriceCurrentX96 = 0
    /\ sqrtPriceLowerX96 = 0
    /\ sqrtPriceUpperX96 = 0
    /\ roundUp = FALSE
    /\ token0Amount = 0
    /\ token1Amount = 0
    /\ result = 0
    /\ threw = FALSE
    /\ NoInvestment /\ NoFeeGrowth /\ NoIncrementalFees /\ NoPhase
    /\ NoMapping

NextPrice ==
    \/ CallPriceToSqrtRatioX96
    \/ CallPriceToTick
    \/ CallPriceToClosestUsableTick
    \/ CallCalculatePositionValueAtPrice
    \/ CallGeneratePnLCurve
    \/ LoopIteration
    \/ LoopExit

SpecPrice == InitPrice /\ [][NextPrice]_vars

----------------------------------------------------------------------------
(* Specification of generatePnLCurve on a well-formed request *)

(***************************************************************************)
(* A position of positive liquidity over a valid tick range with           *)
(* tickLower < tickUpper, between two different tokens, drawn over a price *)
(* range with min <= max in numPoints >= 1 steps.                          *)
(***************************************************************************)
InitCurve ==
    /\ pc = "start"
    /\ liquidity = MaxLiquidity
    /\ tickLower \in MIN_TICK .. MAX_TICK
    /\ tickUpper \in MIN_TICK .. MAX_TICK
    /\ tickLower < tickUpper
    /\ costBasis = MaxValue
    /\ baseTokenAddress \in Addresses
    /\ quoteTokenAddress \in Addresses
    /\ baseTokenAddress # quoteTokenAddress
    /\ baseTokenDecimals \in Decimals
    /\ tickSpacing \in TickSpacings
    /\ priceMin \in Prices
    /\ priceMax \in Prices
    /\ priceMin <= priceMax
    /\ numPoints \in 1 .. MaxPoints
    /\ price = 0
    /\ baseIsToken0 = FALSE
    /\ priceStep = 0
    /\ i = 0
    /\ points = << >>
    /\ curve = << >>
    /\ currentValue = 0
    /\ pnl = 0
    /\ pnlPercent = 0
    /\ tickCurrent = 0
    /\ sqrtPriceCurrentX96 = 0
    /\ sqrtPriceLowerX96 = 0
    /\ sqrtPriceUpperX96 = 0
    /\ roundUp = FALSE
    /\ token0Amount = 0
    /\ token1Amount = 0
    /\ result = 0
    /\ threw = FALSE
    /\ NoInvestment /\ NoFeeGrowth /\ NoIncrementalFees /\ NoPhase
    /\ NoMapping

NextCurve ==
    \/ CallGeneratePnLCurve
    \/ LoopIteration
    \/ LoopExit

SpecCurve == InitCurve /\ [][NextCurve]_vars

----------------------------------------------------------------------------
(* Specification of the base / quote mapping: getTokenMapping on every   *)
(* combination of address strings, well-formed or not                     *)

InitMapping ==
    /\ pc = "start"
    /\ token0Address \in AddressStrings
    /\ token1Address \in AddressStrings
    /\ baseTokenAddress \in AddressStrings
    /\ quoteTokenAddress \in AddressStrings
    /\ baseIsToken0 = FALSE
    /\ quoteIsToken0 = FALSE
    /\ error = ""
    /\ price = 0
    /\ tickSpacing = 0
    /\ baseTokenDecimals = 0
    /\ result = 0
    /\ threw = FALSE
    /\ NoLiquidityCall /\ NoInvestment /\ NoTicks /\ NoFeeGrowth
    /\ NoIncrementalFees /\ NoPhase /\ NoPnL /\ NoCurve

\* getTokenMapping(token0Address, token1Address, baseTokenAddress,
\*                 quoteTokenAddress)
CallGetTokenMapping ==
    /\ pc = "start"
    /\ pc' = "getTokenMapping"
    /\ LET e == getTokenMapping_error(token0Address, token1Address, baseTokenAddress, quoteTokenAddress)
           r == getTokenMapping(token0Address, token1Address, baseTokenAddress, quoteTokenAddress)
       IN  /\ error' = e
           /\ threw' = (e # "")
           /\ baseIsToken0' = IF e = "" THEN r.baseIsToken0 ELSE baseIsToken0
           /\ quoteIsToken0' = IF e = "" THEN r.quoteIsToken0 ELSE quoteIsToken0
    /\ UNCHANGED <<liqArgs, liqOut, result, investArgs, tickArgs, feeArgs,
                   feeOut, incArgs, phase, price, tickSpacing,
                   baseTokenAddress, quoteTokenAddress, baseTokenDecimals,
                   pnlArgs, pnlOut, curveArgs, curveLocals, curve,
                   mappingArgs>>

NextMapping == CallGetTokenMapping

SpecMapping == InitMapping /\ [][NextMapping]_vars

----------------------------------------------------------------------------
(* Claims about the liquidity conversion engine (checked under SpecLiq) *)

\* floor(n / d) and the remainder n mod d of non-negative n and positive d,
\* written out for the claims
FloorOf(n, d) == n \div d
RemOf(n, d) == n % d

\* C1: for L >= 0, sqrtLower < sqrtUpper and a positive current sqrt price,
\* feeding the floor-rounded amounts of getTokenAmountsFromLiquidity_X96 back
\* into getLiquidityFromTokenAmounts_X96 with the same prices returns a
\* liquidity <= L: the round trip never gains liquidity.
C1_RoundTripNeverGains ==
    (/\ pc = "roundTrip"
     /\ ~roundUp
     /\ sqrtPriceLowerX96 < sqrtPriceUpperX96
     /\ sqrtPriceCurrentX96 > 0)
    => result <= liquidity

\* an in-range round trip that returns a positive liquidity below L
C1_Witness ==
    /\ pc = "roundTrip"
    /\ ~roundUp
    /\ sqrtPriceLowerX96 < sqrtPriceCurrentX96
    /\ sqrtPriceCurrentX96 < sqrtPriceUpperX96
    /\ token0Amount > 0
    /\ token1Amount > 0
    /\ result > 0
    /\ result < liquidity

\* C2: for L > 0 and sqrtLower < sqrtUpper the floor-rounded amounts are
\* (floor(L*(U-Lo)*2^96/(U*Lo)), 0) when S <= Lo, (0, floor(L*(U-Lo)/2^96))
\* when S >= U, and (floor(L*(U-S)*2^96/(U*S)), floor(L*(S-Lo)/2^96))
\* otherwise; token1 is 0 at or below the range and token0 is 0 at or above
\* it under both rounding modes.
C2_FloorAmountsByRegime ==
    (/\ pc = "getTokenAmountsFromLiquidity_X96"
     /\ liquidity > 0
     /\ sqrtPriceLowerX96 < sqrtPriceUpperX96
     /\ sqrtPriceCurrentX96 > 0)
    => LET L  == liquidity
           S  == sqrtPriceCurrentX96
           Lo == sqrtPriceLowerX96
           U  == sqrtPriceUpperX96
       IN  /\ (S <= Lo) => token1Amount = 0
           /\ (S >= U) => token0Amount = 0
           /\ (~roundUp /\ S <= Lo) =>
                  token0Amount = FloorOf(L * (U - Lo) * Q96, U * Lo)
           /\ (~roundUp /\ S >= U) =>
                  token1Amount = FloorOf(L * (U - Lo), Q96)
           /\ (~roundUp /\ Lo < S /\ S < U) =>
                  /\ token0Amount = FloorOf(L * (U - S) * Q96, U * S)
                  /\ token1Amount = FloorOf(L * (S - Lo), Q96)

\* an in-range call with floor rounding where both divisions leave a remainder
C2_Witness ==
    /\ pc = "getTokenAmountsFromLiquidity_X96"
    /\ ~roundUp
    /\ liquidity > 0
    /\ sqrtPriceLowerX96 > 0
    /\ sqrtPriceLowerX96 < sqrtPriceCurrentX96
    /\ sqrtPriceCurrentX96 < sqrtPriceUpperX96
    /\ token0Amount > 0
    /\ token1Amount > 0
    /\ RemOf(liquidity * (sqrtPriceUpperX96 - sqrtPriceCurrentX96) * Q96,
             sqrtPriceUpperX96 * sqrtPriceCurrentX96) # 0
    /\ RemOf(liquidity * (sqrtPriceCurrentX96 - sqrtPriceLowerX96), Q96) # 0

\* the two single-token liquidities with floor division, as the claim reads them
FloorLiquidity0(lo, up, amount0) ==
    IF up <= lo \/ amount0 <= 0 THEN 0
    ELSE FloorOf(amount0 * lo * up, Q96 * (up - lo))

FloorLiquidity1(lo, up, amount1) ==
    IF up <= lo \/ amount1 <= 0 THEN 0
    ELSE FloorOf(amount1 * Q96, up - lo)

\* C3: getLiquidityFromTokenAmounts_X96 returns the amount0 liquidity of
\* [Lo, U] alone when S <= Lo, the amount1 liquidity of [Lo, U] alone when
\* S >= U, and otherwise the minimum of the amount0 liquidity of [S, U] and
\* the amount1 liquidity of [Lo, S]; every division is a floor division.
C3_LiquidityFromAmountsByRegime ==
    (pc \in {"getLiquidityFromTokenAmounts_X96", "roundTrip"})
    => LET S  == sqrtPriceCurrentX96
           Lo == sqrtPriceLowerX96
           U  == sqrtPriceUpperX96
           l0 == FloorLiquidity0(S, U, token0Amount)
           l1 == FloorLiquidity1(Lo, S, token1Amount)
       IN  result = IF S <= Lo THEN FloorLiquidity0(Lo, U, token0Amount)
                    ELSE IF S >= U THEN FloorLiquidity1(Lo, U, token1Amount)
                    ELSE IF l0 <= l1 THEN l0 ELSE l1

\* an in-range call where the two single-token liquidities differ and the
\* smaller, positive one is returned
C3_Witness ==
    /\ pc = "getLiquidityFromTokenAmounts_X96"
    /\ sqrtPriceLowerX96 < sqrtPriceCurrentX96
    /\ sqrtPriceCurrentX96 < sqrtPriceUpperX96
    /\ FloorLiquidity0(sqrtPriceCurrentX96, sqrtPriceUpperX96, token0Amount)
         # FloorLiquidity1(sqrtPriceLowerX96, sqrtPriceCurrentX96, token1Amount)
    /\ result > 0

\* the remainders of the divisions behind the two components of
\* getTokenAmountsFromLiquidity_X96 (0 where the component is not divided)
Remainder0(L, S, Lo, U) ==
    IF L = 0 \/ S >= U THEN 0
    ELSE IF S <= Lo THEN RemOf(L * (U - Lo) * Q96, U * Lo)
    ELSE RemOf(L * (U - S) * Q96, U * S)

Remainder1(L, S, Lo, U) ==
    IF L = 0 \/ S <= Lo THEN 0
    ELSE IF S >= U THEN RemOf(L * (U - Lo), Q96)
    ELSE RemOf(L * (S - Lo), Q96)

\* C4: for identical inputs (L >= 0, sqrtLower < sqrtUpper) every component
\* computed with roundUp = true is >= the component computed with
\* roundUp = false and exceeds it by at most 1; the two are equal exactly
\* when the division is exact.  The same holds for getAmount0FromLiquidity
\* and getAmount1FromLiquidity.
C4_CeilingWithinOneOfFloor ==
    LET L  == liquidity
        S  == sqrtPriceCurrentX96
        Lo == sqrtPriceLowerX96
        U  == sqrtPriceUpperX96
    IN  (roundUp /\ Lo < U /\ Lo > 0 /\ S > 0) =>
        /\ (pc = "getTokenAmountsFromLiquidity_X96") =>
             LET fl == getTokenAmountsFromLiquidity_X96(L, S, Lo, U, FALSE)
             IN  /\ token0Amount - fl.token0Amount \in {0, 1}
                 /\ token1Amount - fl.token1Amount \in {0, 1}
                 /\ (token0Amount = fl.token0Amount)
                      <=> (Remainder0(L, S, Lo, U) = 0)
                 /\ (token1Amount = fl.token1Amount)
                      <=> (Remainder1(L, S, Lo, U) = 0)
        /\ (pc = "getAmount0FromLiquidity") =>
             LET fl == getAmount0FromLiquidity(Lo, U, L, FALSE)
             IN  /\ result - fl \in {0, 1}
                 /\ (result = fl) <=> (RemOf(L * (U - Lo) * Q96, U * Lo) = 0)
        /\ (pc = "getAmount1FromLiquidity") =>
             LET fl == getAmount1FromLiquidity(Lo, U, L, FALSE)
             IN  /\ result - fl \in {0, 1}
                 /\ (result = fl) <=> (RemOf(L * (U - Lo), Q96) = 0)

\* an in-range ceiling call where token0 is one above the floor and the
\* token1 division is exact, so that token1 equals the floor
C4_Witness ==
    /\ pc = "getTokenAmountsFromLiquidity_X96"
    /\ roundUp
    /\ sqrtPriceLowerX96 > 0
    /\ sqrtPriceLowerX96 < sqrtPriceCurrentX96
    /\ sqrtPriceCurrentX96 < sqrtPriceUpperX96
    /\ token0Amount =
         getAmount0FromLiquidity(sqrtPriceCurrentX96, sqrtPriceUpperX96,
                                 liquidity, FALSE) + 1
    /\ token1Amount > 0
    /\ token1Amount =
         getAmount1FromLiquidity(sqrtPriceLowerX96, sqrtPriceCurrentX96,
                                 liquidity, FALSE)

\* C5: with non-negative quantities and positive sqrt prices the conversions
\* return zero and raise no error on degenerate input: the amount functions
\* when liquidity = 0 or sqrtUpper <= sqrtLower (every current price, both
\* rounding modes), the single-token liquidity functions when the amount is
\* <= 0 or sqrtUpper <= sqrtLower, getLiquidityFromTokenAmounts_X96 when
\* both amounts are 0 or sqrtUpper <= sqrtLower.
C5_DegenerateInputIsZero ==
    LET Lo == sqrtPriceLowerX96
        U  == sqrtPriceUpperX96
        positive == Lo > 0 /\ U > 0 /\ sqrtPriceCurrentX96 > 0
        collapsed == U <= Lo
    IN  positive =>
        /\ (pc \in {"getAmount0FromLiquidity", "getAmount1FromLiquidity"}
            /\ (liquidity = 0 \/ collapsed))
             => (result = 0 /\ ~threw)
        /\ (pc = "getTokenAmountsFromLiquidity_X96"
            /\ (liquidity = 0 \/ collapsed))
             => (token0Amount = 0 /\ token1Amount = 0 /\ ~threw)
        /\ (pc = "getLiquidityFromAmount0" /\ (token0Amount <= 0 \/ collapsed))
             => (result = 0 /\ ~threw)
        /\ (pc = "getLiquidityFromAmount1" /\ (token1Amount <= 0 \/ collapsed))
             => (result = 0 /\ ~threw)
        /\ (pc = "getLiquidityFromTokenAmounts_X96"
            /\ ((token0Amount = 0 /\ token1Amount = 0) \/ collapsed))
             => (result = 0 /\ ~threw)

\* getAmount0FromLiquidity called with positive liquidity and an inverted
\* pair of positive bounds
C5_Witness ==
    /\ pc = "getAmount0FromLiquidity"
    /\ liquidity > 0
    /\ sqrtPriceUpperX96 > 0
    /\ sqrtPriceUpperX96 < sqrtPriceLowerX96
    /\ result = 0
    /\ ~threw

----------------------------------------------------------------------------
(* Claims about the investment sizing (checked under SpecInvest) *)

----------------------------------------------------------------------------
(* Claims about the fee accounting *)

\* C7 (SpecFees): for non-negative a and b, safeDiff(a, b) = 0 whenever
\* b >= a and = a - b otherwise; the result is never negative.
C7_SafeDiffFloorsAtZero ==
    (pc = "safeDiff")
    => LET a == feeGrowthInsideCurrent
           b == feeGrowthInsideLast
       IN  /\ (b >= a) => result = 0
           /\ (b < a) => result = a - b
           /\ result >= 0

\* safeDiff of a smaller minuend
C7_Witness ==
    /\ pc = "safeDiff"
    /\ feeGrowthInsideLast > feeGrowthInsideCurrent
    /\ feeGrowthInsideCurrent > 0
    /\ result = 0

\* the fee growth inside of one token, as the claim derives it
ClampedDifference(a, b) == IF b >= a THEN 0 ELSE a - b

InsideOfToken(tickCur, tickLo, tickUp, growthGlobal, outsideLower, outsideUpper) ==
    LET below == IF tickCur >= tickLo THEN outsideLower
                 ELSE ClampedDifference(growthGlobal, outsideLower)
        above == IF tickCur < tickUp THEN outsideUpper
                 ELSE ClampedDifference(growthGlobal, outsideUpper)
    IN  ClampedDifference(ClampedDifference(growthGlobal, below), above)

\* C8 (SpecFeeGrowth): computeFeeGrowthInside computes, for each token from
\* that token's accumulators alone, below = outsideLower if tickCurrent >=
\* tickLower else safeDiff(global, outsideLower), above = outsideUpper if
\* tickCurrent < tickUpper else safeDiff(global, outsideUpper) and
\* inside = safeDiff(safeDiff(global, below), above), wherever tickCurrent is.
C8_FeeGrowthInsidePerToken ==
    (pc = "computeFeeGrowthInside")
    => /\ inside0 = InsideOfToken(tickCurrent, tickLower, tickUpper,
                        feeGrowthGlobal0, feeGrowthOutsideLower0,
                        feeGrowthOutsideUpper0)
       /\ inside1 = InsideOfToken(tickCurrent, tickLower, tickUpper,
                        feeGrowthGlobal1, feeGrowthOutsideLower1,
                        feeGrowthOutsideUpper1)

\* the current tick sits on the lower tick of a proper range and the two
\* tokens, with different accumulators, get different results
C8_Witness ==
    /\ pc = "computeFeeGrowthInside"
    /\ tickCurrent = tickLower
    /\ tickLower < tickUpper
    /\ feeGrowthOutsideLower0 > 0
    /\ inside0 > 0
    /\ inside1 = 0
    /\ feeGrowthGlobal1 > 0

\* C9 (SpecFees): calculateIncrementalFees(insideCurrent, insideLast,
\* liquidity) = floor(safeDiff(insideCurrent, insideLast) * liquidity / 2^128)
\* for non-negative inputs; it is 0 whenever insideCurrent <= insideLast.
C9_IncrementalFeesFloor ==
    (pc = "calculateIncrementalFees")
    => /\ result = FloorOf(ClampedDifference(feeGrowthInsideCurrent,
                               feeGrowthInsideLast) * liquidity, Q128)
       /\ (feeGrowthInsideCurrent <= feeGrowthInsideLast) => result = 0

\* positive fees from a growth delta whose product with the liquidity is not
\* a multiple of 2^128
C9_Witness ==
    /\ pc = "calculateIncrementalFees"
    /\ feeGrowthInsideCurrent > feeGrowthInsideLast
    /\ feeGrowthInsideLast > 0
    /\ result > 0
    /\ RemOf((feeGrowthInsideCurrent - feeGrowthInsideLast) * liquidity, Q128) # 0

----------------------------------------------------------------------------
(* Claims about the position phase (checked under SpecPhase) *)

\* C10: determinePhase returns 'below' iff tickCurrent < tickLower, 'above'
\* iff tickCurrent >= tickUpper and not below, 'in-range' otherwise; at
\* tickCurrent = tickUpper it returns 'above' and at tickCurrent = tickLower
\* (< tickUpper) it returns 'in-range'.
C10_PhaseBoundaries ==
    (pc = "determinePhase")
    => /\ (phase = "below") <=> (tickCurrent < tickLower)
       /\ (phase = "above") <=>
            (tickCurrent >= tickUpper /\ ~(tickCurrent < tickLower))
       /\ (phase = "in-range") <=>
            (tickLower <= tickCurrent /\ tickCurrent < tickUpper)
       /\ (tickLower < tickUpper /\ tickCurrent = tickUpper) => phase = "above"
       /\ (tickLower < tickUpper /\ tickCurrent = tickLower) => phase = "in-range"

\* the current tick sits on the upper tick of a proper range
C10_Witness ==
    /\ pc = "determinePhase"
    /\ tickLower < tickUpper
    /\ tickCurrent = tickUpper
    /\ phase = "above"

----------------------------------------------------------------------------
(* Claims about valuation and profit and loss *)

\* C14: calculatePnL returns pnl = currentValue - costBasis (signed).  Its
\* pnlPercent is the integer quotient (pnl * 10000) / costBasis read in
\* hundredths: it is 100 * pnl / costBasis cut toward zero to its second
\* decimal, i.e. it has the sign of pnl and lies less than one hundredth
\* from 100 * pnl / costBasis.  pnlPercent is 0 when costBasis is 0, and no
\* division by zero occurs.
C14_PnLAndPercent ==
    pc = "calculatePnL" =>
        /\ ~threw
        /\ pnl = currentValue - costBasis
        /\ costBasis = 0 => pnlPercent = 0
        /\ costBasis > 0 /\ pnl >= 0 =>
              /\ pnlPercent >= 0
              /\ pnlPercent * costBasis <= pnl * 10000
              /\ pnl * 10000 < (pnlPercent + 1) * costBasis
        /\ costBasis > 0 /\ pnl < 0 =>
              /\ pnlPercent <= 0
              /\ pnlPercent * costBasis >= pnl * 10000
              /\ pnl * 10000 > (pnlPercent - 1) * costBasis

\* a loss whose percentage is not a whole number of hundredths, and a call
\* with cost basis 0
C14_Witness ==
    /\ pc = "calculatePnL"
    /\ costBasis = 7
    /\ currentValue = 5
    /\ pnl = -2
    /\ pnlPercent = -2857

\* C15: calculatePositionValue returns floor(amount0 * price /
\* 10^baseDecimals) + amount1 when the base token is token0 and amount0 +
\* floor(amount1 * price / 10^baseDecimals) when it is token1, where
\* (amount0, amount1) are the floor amounts getTokenAmountsFromLiquidity
\* gives for the liquidity, the current sqrt price and the tick range; it
\* returns 0 when the liquidity is 0.
C15_PositionValueInQuote ==
    pc = "calculatePositionValue" /\ ~threw =>
        LET held == getTokenAmountsFromLiquidity(liquidity, sqrtPriceCurrentX96,
                        tickLower, tickUpper, FALSE)
            amount0 == held.token0Amount
            amount1 == held.token1Amount
            scale == 10 ^ baseTokenDecimals
        IN  /\ liquidity = 0 => result = 0
            /\ liquidity # 0 /\ baseIsToken0 =>
                  result = FloorOf(amount0 * price, scale) + amount1
            /\ liquidity # 0 /\ ~baseIsToken0 =>
                  result = amount0 + FloorOf(amount1 * price, scale)

\* a position inside its range that holds both tokens, valued with a price
\* whose product with the base amount does not divide by 10^baseDecimals
C15_Witness ==
    /\ pc = "calculatePositionValue"
    /\ ~threw
    /\ baseIsToken0
    /\ baseTokenDecimals = 1
    /\ LET held == getTokenAmountsFromLiquidity(liquidity, sqrtPriceCurrentX96,
                       tickLower, tickUpper, FALSE)
       IN  /\ held.token0Amount > 0
           /\ held.token1Amount > 0
           /\ (held.token0Amount * price) % 10 # 0
           /\ held.token0Amount * price > 10
           /\ result = ((held.token0Amount * price) \div 10) + held.token1Amount

----------------------------------------------------------------------------
(* Claims about the price and tick conversions *)

\* C16: tickToSqrtRatioX96(t) is defined and positive for every tick t of
\* the valid range [MIN_TICK, MAX_TICK], is strictly increasing in t, and
\* tickToSqrtRatioX96(0) is exactly 2^96 (the fixed point one, Q96).
C16_SqrtRatioStrictlyIncreasing ==
    pc = "tickToSqrtRatioX96" /\ tickCurrent \in MIN_TICK .. MAX_TICK =>
        /\ ~threw
        /\ result > 0
        /\ tickCurrent = 0 => result = 2 ^ QBits
        /\ \A t \in MIN_TICK .. MAX_TICK :
              /\ t > tickCurrent => tickToSqrtRatioX96(t) > result
              /\ t < tickCurrent => tickToSqrtRatioX96(t) < result

\* the lowest valid tick has been converted
C16_Witness ==
    /\ pc = "tickToSqrtRatioX96"
    /\ tickCurrent = MIN_TICK
    /\ ~threw
    /\ result > 0
    /\ result < tickToSqrtRatioX96(MIN_TICK + 1)

\* C17: for a positive sqrt ratio s and d decimals,
\* sqrtRatioX96ToToken1PerToken0(s, d) = floor(s^2 * 10^d / 2^192) and
\* sqrtRatioX96ToToken0PerToken1(s, d) = floor(2^192 * 10^d / s^2);
\* pricePerToken0InToken1(s, d) returns the first value and
\* pricePerToken1InToken0(s, d) the second.
C17_PricesOfSqrtRatio ==
    LET s == sqrtPriceCurrentX96
        ten == 10 ^ baseTokenDecimals
        one == (2 ^ QBits) * (2 ^ QBits)
    IN  s > 0 =>
          /\ pc \in {"sqrtRatioX96ToToken1PerToken0", "pricePerToken0InToken1"} =>
                /\ ~threw
                /\ result * one <= s * s * ten
                /\ s * s * ten < (result + 1) * one
                /\ result = sqrtRatioX96ToToken1PerToken0(s, baseTokenDecimals)
          /\ pc \in {"sqrtRatioX96ToToken0PerToken1", "pricePerToken1InToken0"} =>
                /\ ~threw
                /\ result * s * s <= one * ten
                /\ one * ten < (result + 1) * s * s
                /\ result = sqrtRatioX96ToToken0PerToken1(s, baseTokenDecimals)

\* pricePerToken1InToken0 has run on a sqrt ratio whose two prices differ
\* and are not exact
C17_Witness ==
    /\ pc = "pricePerToken1InToken0"
    /\ ~threw
    /\ sqrtPriceCurrentX96 = 3
    /\ baseTokenDecimals = 2
    /\ result = 711
    /\ sqrtRatioX96ToToken1PerToken0(3, 2) = 14

\* the sqrt price a price encodes to, and its floor tick
EncodedSqrtPrice ==
    priceToSqrtRatioX96(baseTokenAddress, quoteTokenAddress,
                        baseTokenDecimals, price)

FloorTick == getTickAtSqrtRatio(EncodedSqrtPrice)

\* the sqrt price lies inside the valid tick range
Encodable ==
    MIN_SQRT_RATIO <= EncodedSqrtPrice /\ EncodedSqrtPrice < MAX_SQRT_RATIO

\* t is a usable tick: a multiple of the tick spacing inside the valid range
UsableTick(t) ==
    /\ t \in MIN_TICK .. MAX_TICK
    /\ t % tickSpacing = 0

Distance(a, b) == IF a >= b THEN a - b ELSE b - a

\* every multiple of the tick spacing at most one spacing beyond the valid
\* range
MultiplesOfSpacing ==
    {k * tickSpacing : k \in (MIN_TICK - 1) .. (MAX_TICK + 1)}

\* C19: priceToTick and priceToClosestUsableTick never reject a positive
\* price because its tick falls outside the valid range: a usable tick is
\* returned for every positive price.
C19_PositivePriceNeverRejected ==
    pc \in {"priceToTick", "priceToClosestUsableTick"} /\ price > 0 =>
        /\ ~threw
        /\ UsableTick(result)

\* C20: for every positive price that encodes to a sqrt price inside the
\* valid tick range and every tick spacing, priceToTick and
\* priceToClosestUsableTick return a usable tick, and the result of
\* priceToTick is the multiple of the tick spacing nearest to the floor tick
\* of the encoded sqrt price.
C20_NearestMultipleOfSpacing ==
    pc \in {"priceToTick", "priceToClosestUsableTick"} /\ price > 0 /\ Encodable =>
        /\ ~threw
        /\ UsableTick(result)
        /\ pc = "priceToTick" =>
              \A m \in MultiplesOfSpacing :
                  Distance(result, FloorTick) <= Distance(m, FloorTick)

\* C20 as it holds: the result of priceToTick is the nearest to the floor
\* tick among the multiples of the tick spacing that lie inside the valid
\* tick range.
C20_NearestUsableMultipleOfSpacing ==
    pc \in {"priceToTick", "priceToClosestUsableTick"} /\ price > 0 /\ Encodable =>
        /\ ~threw
        /\ UsableTick(result)
        /\ pc = "priceToTick" =>
              \A m \in MultiplesOfSpacing :
                  UsableTick(m) =>
                      Distance(result, FloorTick) <= Distance(m, FloorTick)

\* priceToTick has snapped a floor tick next to the lower end of the range,
\* where the nearest multiple of the spacing lies outside the range
C20_Witness ==
    /\ pc = "priceToTick"
    /\ price > 0
    /\ Encodable
    /\ ~threw
    /\ tickSpacing > 1
    /\ FloorTick = MIN_TICK
    /\ FloorTick % tickSpacing # 0
    /\ UsableTick(result)
    /\ result > FloorTick

\* the truncating quotient of an integer by a positive integer
TruncatedQuotient(n, d) == IF n >= 0 THEN n \div d ELSE -((-n) \div d)

\* the k-th sample price (k = 0 .. numPoints) of the requested curve
SampleOfCurve(k) ==
    priceMin + k * TruncatedQuotient(priceMax - priceMin, numPoints)

\* C18: a non-positive price passed to priceToSqrtRatioX96, priceToTick or
\* priceToClosestUsableTick is rejected with an error and no value is
\* returned.  Consequently calculatePositionValueAtPrice fails on a
\* non-positive price, and generatePnLCurve fails as a whole, returning no
\* points at all, when one of its sample prices is non-positive.
C18_NonPositivePriceRejected ==
    /\ pc \in {"priceToSqrtRatioX96", "priceToTick", "priceToClosestUsableTick",
                "calculatePositionValueAtPrice"} /\ price <= 0 =>
          /\ threw
          /\ result = 0
    /\ pc = "generatePnLCurve" /\ numPoints >= 1
         /\ (\E k \in 0 .. numPoints : SampleOfCurve(k) <= 0) =>
          /\ threw
          /\ curve = << >>

\* generatePnLCurve has pushed points for positive sample prices and has
\* then failed on a sample price of 0 without returning anything
C18_Witness ==
    /\ pc = "generatePnLCurve"
    /\ threw
    /\ Len(points) = 2
    /\ SampleOfCurve(0) > 0
    /\ SampleOfCurve(2) = 0
    /\ curve = << >>

----------------------------------------------------------------------------
(* Claims about the PnL curve (checked under SpecCurve) *)

PhaseRank(p) == IF p = "below" THEN 0 ELSE IF p = "in-range" THEN 1 ELSE 2

\* the sample price p encodes to a sqrt price inside the valid tick range
EncodableAt(p) ==
    LET sqrtP == priceToSqrtRatioX96(baseTokenAddress, quoteTokenAddress,
                                     baseTokenDecimals, p)
    IN  MIN_SQRT_RATIO <= sqrtP /\ sqrtP < MAX_SQRT_RATIO

\* C11: along the points of generatePnLCurve, in index order, the phase
\* only ever moves below -> in-range -> above and never steps back, for
\* every base/quote token pair, tick range and tick spacing.
C11_PhaseNeverStepsBack ==
    \A j, k \in 1 .. Len(points) :
        j < k => PhaseRank(points[j].phase) <= PhaseRank(points[k].phase)

\* what holds instead: the phase never steps back when the base token is
\* token0, and never steps forward when the base token is token1
PhaseFollowsTokenOrder ==
    \A j, k \in 1 .. Len(points) :
        j < k =>
            IF BigInt(baseTokenAddress) < BigInt(quoteTokenAddress)
            THEN PhaseRank(points[j].phase) <= PhaseRank(points[k].phase)
            ELSE PhaseRank(points[j].phase) >= PhaseRank(points[k].phase)

C13_PricesSpanTheRange ==
    pc = "generatePnLCurve" /\ ~threw /\ numPoints >= 1 /\ priceMin < priceMax =>
        /\ curve[1].price = priceMin
        /\ curve[Len(curve)].price = priceMax
        /\ \A k \in 1 .. Len(curve) - 1 :
              curve[k + 1].price - curve[k].price
                  = curve[2].price - curve[1].price

\* C13 as it holds: the sample prices are evenly spaced by the step
\* floor((max - min) / numPoints) and start at priceRange.min; the last
\* price is min + numPoints * step, which is at most priceRange.max, less
\* than numPoints below it, and equal to it exactly when numPoints divides
\* max - min.
C13_PricesEvenlySpacedFromMin ==
    pc = "generatePnLCurve" /\ ~threw /\ numPoints >= 1 /\ priceMin < priceMax =>
        LET last == curve[Len(curve)].price
        IN  /\ curve[1].price = priceMin
            /\ \A k \in 1 .. Len(curve) - 1 :
                  /\ curve[k + 1].price - curve[k].price
                        = curve[2].price - curve[1].price
                  /\ (curve[k + 1].price - curve[k].price) * numPoints
                        <= priceMax - priceMin
                  /\ (curve[k + 1].price - curve[k].price + 1) * numPoints
                        > priceMax - priceMin
            /\ last <= priceMax
            /\ priceMax - last < numPoints
            /\ last = priceMax <=> (priceMax - priceMin) % numPoints = 0

\* a curve whose last price stays below priceRange.max
C13_Witness ==
    /\ pc = "generatePnLCurve"
    /\ ~threw
    /\ numPoints = 2
    /\ priceMin < priceMax
    /\ (priceMax - priceMin) % 2 = 1
    /\ curve[1].price = priceMin
    /\ curve[3].price = priceMax - 1
    /\ curve[2].price > curve[1].price

----------------------------------------------------------------------------
(* C21: the base / quote mapping rejects mismatched tokens *)

\* the four addresses of the call are well-formed
WellFormedCall ==
    /\ isValidAddress(token0Address)
    /\ isValidAddress(token1Address)
    /\ isValidAddress(baseTokenAddress)
    /\ isValidAddress(quoteTokenAddress)

\* the same token: the same hexadecimal digits, whatever their case
SameToken(a, b) ==
    /\ Len(a) = Len(b)
    /\ \A k \in 1 .. Len(a) :
          \/ a[k] = b[k]
          \/ {a[k], b[k]} = {"a", "A"}

\* C21: getTokenMapping fails with an explicit error whenever base and quote
\* are the same token, or base is neither token0 nor token1, or quote is
\* neither token0 nor token1; whenever it returns, exactly one of
\* baseIsToken0 and quoteIsToken0 is true.
C21_MismatchedTokensRejected ==
    pc = "getTokenMapping" =>
        /\ (\/ SameToken(baseTokenAddress, quoteTokenAddress)
            \/ ~SameToken(baseTokenAddress, token0Address)
                  /\ ~SameToken(baseTokenAddress, token1Address)
            \/ ~SameToken(quoteTokenAddress, token0Address)
                  /\ ~SameToken(quoteTokenAddress, token1Address))
           => threw /\ error # ""
        /\ ~threw => (baseIsToken0 # quoteIsToken0)

\* what the code does guarantee: a call that returns has base and quote among
\* the two pool tokens, and never both on token0; a call on a proper pool
\* (token0 and token1 distinct) with base and quote the two distinct pool
\* tokens returns with exactly one flag set
MappingOfProperPool ==
    pc = "getTokenMapping" =>
        /\ ~threw =>
              /\ WellFormedCall
              /\ ~(baseIsToken0 /\ quoteIsToken0)
              /\ baseIsToken0 = SameToken(baseTokenAddress, token0Address)
              /\ quoteIsToken0 = SameToken(quoteTokenAddress, token0Address)
              /\ baseIsToken0 \/ SameToken(baseTokenAddress, token1Address)
              /\ quoteIsToken0 \/ SameToken(quoteTokenAddress, token1Address)
        /\ (/\ WellFormedCall
            /\ ~SameToken(token0Address, token1Address)
            /\ ~SameToken(baseTokenAddress, quoteTokenAddress)
            /\ ~threw
            ) => (baseIsToken0 # quoteIsToken0)
        /\ (/\ ~threw
            /\ ~baseIsToken0
            /\ ~quoteIsToken0
            ) => SameToken(baseTokenAddress, quoteTokenAddress)

\* base and quote are both token1 of a proper pool, and the call returned
BothOnToken1Returned ==
    /\ pc = "getTokenMapping"
    /\ ~threw
    /\ ~SameToken(token0Address, token1Address)
    /\ SameToken(baseTokenAddress, token1Address)
    /\ SameToken(quoteTokenAddress, token1Address)

----------------------------------------------------------------------------
(* C22: the single-sided conversions bracket the liquidity *)

\* C22: for every L > 0 and sqrtLower < sqrtUpper, converting L to a token0
\* amount and back with floor rounding never exceeds L, and with ceiling
\* rounding never falls below L; likewise for token1.
C22_SingleSidedRoundTripBrackets ==
    (/\ pc \in {"amount0RoundTrip", "amount1RoundTrip"}
     /\ liquidity > 0
     /\ sqrtPriceLowerX96 < sqrtPriceUpperX96)
    => /\ roundUp => result >= liquidity
       /\ ~roundUp => result <= liquidity
       /\ pc = "amount0RoundTrip" =>
             /\ token0Amount = getAmount0FromLiquidity(sqrtPriceLowerX96,
                                   sqrtPriceUpperX96, liquidity, roundUp)
             /\ result = getLiquidityFromAmount0(sqrtPriceLowerX96,
                             sqrtPriceUpperX96, token0Amount, roundUp)
       /\ pc = "amount1RoundTrip" =>
             /\ token1Amount = getAmount1FromLiquidity(sqrtPriceLowerX96,
                                   sqrtPriceUpperX96, liquidity, roundUp)
             /\ result = getLiquidityFromAmount1(sqrtPriceLowerX96,
                             sqrtPriceUpperX96, token1Amount, roundUp)

\* a token1 floor round trip that loses liquidity without losing all of it
C22_Witness ==
    /\ pc = "amount1RoundTrip"
    /\ ~roundUp
    /\ sqrtPriceLowerX96 < sqrtPriceUpperX96
    /\ token1Amount > 0
    /\ result > 0
    /\ result < liquidity

\* the other three corners: a token0 floor round trip below L, and ceiling
\* round trips of either token above L
BracketIsStrictSomewhere ==
    /\ pc = "amount0RoundTrip"
    /\ sqrtPriceLowerX96 < sqrtPriceUpperX96
    /\ \/ ~roundUp /\ result > 0 /\ result < liquidity
       \/ roundUp /\ result > liquidity

----------------------------------------------------------------------------
(* C23: more budget never buys less liquidity *)

\* the liquidity sized for another budget at the prices of the call
LiquidityOfBudget(b, q) ==
    getLiquidityFromInvestmentAmounts(b, q, isQuoteToken0, sqrtPriceLowerX96,
        sqrtPriceUpperX96, sqrtPriceCurrentX96)

\* the budgets (b, q) at least as large as the budget of the call, pocket
\* by pocket
LargerBudgets ==
    {bq \in Investments \X Investments :
        baseAmount <= bq[1] /\ quoteAmount <= bq[2]}

\* the statement for every pair of integer pockets, negative ones included:
\* it does not hold, a negative pocket is netted against the other one and
\* the in-range quotient can be negative
MonotoneOverAllIntegers ==
    (/\ pc = "getLiquidityFromInvestmentAmounts"
     /\ sqrtPriceCurrentX96 > 0)
    => \A bq \in LargerBudgets : result <= LiquidityOfBudget(bq[1], bq[2])

\* C23: getLiquidityFromInvestmentAmounts is monotone in the budget: for
\* fixed bounds, current sqrt price and isQuoteToken0, a budget that is at
\* least as large in both pockets sizes at least as much liquidity; in
\* particular both pockets together size at least as much as either pocket
\* alone, in all three regimes.  Amounts are non-negative integers and sqrt
\* prices positive.
C23_MonotoneInBudget ==
    (/\ pc = "getLiquidityFromInvestmentAmounts"
     /\ sqrtPriceCurrentX96 > 0
     /\ baseAmount >= 0
     /\ quoteAmount >= 0)
    => /\ ~threw
       /\ result >= 0
       /\ \A bq \in LargerBudgets : result <= LiquidityOfBudget(bq[1], bq[2])
       /\ result >= LiquidityOfBudget(baseAmount, 0)
       /\ result >= LiquidityOfBudget(0, quoteAmount)

\* both pockets are invested in range and size strictly more liquidity than
\* either pocket alone
C23_Witness ==
    /\ pc = "getLiquidityFromInvestmentAmounts"
    /\ ~threw
    /\ sqrtPriceLowerX96 < sqrtPriceCurrentX96
    /\ sqrtPriceCurrentX96 < sqrtPriceUpperX96
    /\ baseAmount > 0
    /\ quoteAmount > 0
    /\ result > LiquidityOfBudget(baseAmount, 0)
    /\ result > LiquidityOfBudget(0, quoteAmount)
    /\ LiquidityOfBudget(baseAmount, 0) > 0
    /\ LiquidityOfBudget(0, quoteAmount) > 0

\* the same below and above the range
MonotoneOutsideRangeReached ==
    /\ pc = "getLiquidityFromInvestmentAmounts"
    /\ ~threw
    /\ sqrtPriceLowerX96 < sqrtPriceUpperX96
    /\ sqrtPriceLowerX96 > 0
    /\ \/ sqrtPriceCurrentX96 <= sqrtPriceLowerX96
       \/ sqrtPriceCurrentX96 >= sqrtPriceUpperX96
    /\ sqrtPriceCurrentX96 > 0
    /\ result > LiquidityOfBudget(baseAmount, 0)
    /\ result > LiquidityOfBudget(0, quoteAmount)
    /\ LiquidityOfBudget(baseAmount, 0) > 0

----------------------------------------------------------------------------
(* C24: the in-range closed form *)

\* the bounds of the call in order
OrderedUpper ==
    IF sqrtPriceUpperX96 > sqrtPriceLowerX96 THEN sqrtPriceUpperX96
    ELSE sqrtPriceLowerX96

OrderedLower ==
    IF sqrtPriceUpperX96 > sqrtPriceLowerX96 THEN sqrtPriceLowerX96
    ELSE sqrtPriceUpperX96

\* quoteAmount plus the base amount valued at S, rounded down
BudgetInQuote ==
    LET S == sqrtPriceCurrentX96
    IN  quoteAmount + (IF isQuoteToken0
                       THEN FloorOf(baseAmount * Q192, S * S)
                       ELSE FloorOf(baseAmount * S * S, Q192))

\* quote value consumed per unit of liquidity, by the closed-form formulas
ClosedFormK ==
    LET A == OrderedUpper
        B == OrderedLower
        S == sqrtPriceCurrentX96
    IN  IF isQuoteToken0
        THEN FloorOf(Q192 * (A - S), A * S) + FloorOf(Q192 * (S - B), S * S)
        ELSE (S - B) + FloorOf(S * (A - S), A)

\* the call of the state sized an in-range position from a budget of
\* non-negative pockets
InRangeSizing ==
    /\ pc = "getLiquidityFromInvestmentAmounts"
    /\ baseAmount >= 0
    /\ quoteAmount >= 0
    /\ OrderedLower < sqrtPriceCurrentX96
    /\ sqrtPriceCurrentX96 < OrderedUpper

InRangeQuoteIsToken0 ==
    /\ InRangeSizing
    /\ isQuoteToken0
    /\ baseAmount > 0
    /\ quoteAmount > 0
    /\ BudgetInQuote > quoteAmount
    /\ ClosedFormK > 0
    /\ result > 0

\* a range so high that both floors of K in token0 units are 0: a positive
\* budget sizes no liquidity
InRangeZeroK ==
    /\ InRangeSizing
    /\ isQuoteToken0
    /\ quoteAmount > 0
    /\ ClosedFormK = 0
    /\ result = 0

----------------------------------------------------------------------------
(* C25: the sized liquidity is purchasable within the budget *)

\* the amounts of the state valued in the quote token at the current price
ValueInQuote ==
    IF isQuoteToken0
    THEN token0Amount + valueOfToken1AmountInToken0(token1Amount, sqrtPriceCurrentX96)
    ELSE token1Amount + valueOfToken0AmountInToken1(token0Amount, sqrtPriceCurrentX96)

\* the liquidity of the state was sized from a budget of non-negative pockets
\* at a positive price, and its floor amounts were computed
SizedAndBought ==
    /\ pc = "amountsOfSizedLiquidity"
    /\ ~threw
    /\ baseAmount >= 0
    /\ quoteAmount >= 0
    /\ sqrtPriceCurrentX96 > 0

\* C25: the liquidity sized by getLiquidityFromInvestmentAmounts is
\* purchasable within the budget: in every regime and for both quote
\* orientations the floor token amounts of the returned liquidity, valued in
\* the quote token at the current sqrt price, do not exceed quoteAmount plus
\* baseAmount valued at the current price.
C25_PurchasableWithinBudget ==
    SizedAndBought => ValueInQuote <= BudgetInQuote

\* what does hold: outside the range, where the whole budget is converted
\* into one token, the position costs no more than the budget
PurchasableOutsideRange ==
    (/\ SizedAndBought
     /\ \/ sqrtPriceCurrentX96 <= OrderedLower
        \/ sqrtPriceCurrentX96 >= OrderedUpper)
    => ValueInQuote <= BudgetInQuote

\* an in-range position that costs more than the budget it was sized from
OverBudgetInRange ==
    /\ SizedAndBought
    /\ sqrtPriceLowerX96 < sqrtPriceCurrentX96
    /\ sqrtPriceCurrentX96 < sqrtPriceUpperX96
    /\ ValueInQuote > BudgetInQuote

----------------------------------------------------------------------------
(* C26: the closest usable tick *)

\* the floor tick of the price lies strictly inside the tick range
FloorTickInside ==
    /\ price > 0
    /\ Encodable
    /\ MIN_TICK < FloorTick
    /\ FloorTick < MAX_TICK

\* the floor tick when the encoded sqrt price is strictly closer to its sqrt
\* ratio than to the sqrt ratio of the next tick, the next tick otherwise
ClosestTick ==
    IF Distance(EncodedSqrtPrice, getSqrtRatioAtTick(FloorTick))
         < Distance(getSqrtRatioAtTick(FloorTick + 1), EncodedSqrtPrice)
    THEN FloorTick
    ELSE FloorTick + 1

\* C26: for a price whose floor tick t0 lies strictly between the minimum
\* and the maximum tick, priceToClosestUsableTick snaps t0 when the encoded
\* sqrt price is strictly closer to sqrtRatio(t0) than to sqrtRatio(t0 + 1)
\* and t0 + 1 otherwise (a tie selects t0 + 1); priceToTick always snaps t0
\* itself.
C26_ClosestTickThenSnap ==
    FloorTickInside =>
        /\ pc = "priceToClosestUsableTick" =>
              /\ ~threw
              /\ result = nearestUsableTick(ClosestTick, tickSpacing)
        /\ pc = "priceToTick" =>
              /\ ~threw
              /\ result = nearestUsableTick(FloorTick, tickSpacing)

\* the two variants differ: priceToClosestUsableTick has returned a tick
\* that priceToTick does not return for the same price
C26_Witness ==
    /\ pc = "priceToClosestUsableTick"
    /\ FloorTickInside
    /\ ~threw
    /\ ClosestTick = FloorTick + 1
    /\ result # priceToTick(price, tickSpacing, baseTokenAddress,
                             quoteTokenAddress, baseTokenDecimals)

\* a tie: the encoded sqrt price is as far from sqrtRatio(t0) as from
\* sqrtRatio(t0 + 1), and t0 + 1 is snapped
TieSelectsNextTick ==
    /\ pc = "priceToClosestUsableTick"
    /\ FloorTickInside
    /\ ~threw
    /\ tickSpacing = 1
    /\ Distance(EncodedSqrtPrice, getSqrtRatioAtTick(FloorTick))
         = Distance(getSqrtRatioAtTick(FloorTick + 1), EncodedSqrtPrice)
    /\ result = FloorTick + 1

\* the floor tick is strictly closer and is kept, although the price is not
\* on the tick
FloorTickIsCloser ==
    /\ pc = "priceToClosestUsableTick"
    /\ FloorTickInside
    /\ ~threw
    /\ tickSpacing = 1
    /\ EncodedSqrtPrice > getSqrtRatioAtTick(FloorTick)
    /\ result = FloorTick

----------------------------------------------------------------------------
(* C27: the amounts over a price sweep *)

\* the amounts of the same position and rounding mode at another current
\* sqrt price
AmountsAt(S) ==
    getTokenAmountsFromLiquidity_X96(liquidity, S, sqrtPriceLowerX96,
        sqrtPriceUpperX96, roundUp)

\* the amounts of the state are those of a position with ordered, positive
\* bounds
AmountsOfOrderedRange ==
    /\ pc = "getTokenAmountsFromLiquidity_X96"
    /\ liquidity >= 0
    /\ 0 < sqrtPriceLowerX96
    /\ sqrtPriceLowerX96 < sqrtPriceUpperX96

\* C27: over a price sweep with fixed L >= 0, fixed sqrtLower < sqrtUpper
\* and fixed rounding mode, the token0 amount never increases and the token1
\* amount never decreases as the current price rises; at S = sqrtLower and
\* at S = sqrtUpper the amounts equal what the in-range formulas give there.
C27_AmountsMonotoneInPrice ==
    AmountsOfOrderedRange =>
        /\ ~threw
        /\ \A S2 \in SqrtPrices :
              sqrtPriceCurrentX96 <= S2 =>
                  /\ token0Amount >= AmountsAt(S2).token0Amount
                  /\ token1Amount <= AmountsAt(S2).token1Amount
        /\ sqrtPriceCurrentX96 \in {sqrtPriceLowerX96, sqrtPriceUpperX96} =>
              /\ token0Amount = getAmount0FromLiquidity(sqrtPriceCurrentX96,
                                    sqrtPriceUpperX96, liquidity, roundUp)
              /\ token1Amount = getAmount1FromLiquidity(sqrtPriceLowerX96,
                                    sqrtPriceCurrentX96, liquidity, roundUp)

\* a position at the lower bound of its range whose token0 amount shrinks
\* and whose token1 amount grows on the way to the upper bound
C27_Witness ==
    /\ AmountsOfOrderedRange
    /\ ~threw
    /\ sqrtPriceCurrentX96 = sqrtPriceLowerX96
    /\ token0Amount > 0
    /\ \E S2 \in SqrtPrices :
          /\ sqrtPriceLowerX96 < S2
          /\ S2 < sqrtPriceUpperX96
          /\ token0Amount > AmountsAt(S2).token0Amount
          /\ AmountsAt(S2).token0Amount > AmountsAt(sqrtPriceUpperX96).token0Amount
          /\ AmountsAt(S2).token1Amount > 0
          /\ AmountsAt(S2).token1Amount < AmountsAt(sqrtPriceUpperX96).token1Amount

----------------------------------------------------------------------------
(* C28: fee growth inside stays between zero and the global fee growth *)

\* C28: for all non-negative accumulators and all ticks, both results of
\* computeFeeGrowthInside satisfy 0 <= inside <= feeGrowthGlobal of the same
\* token, whatever the outside checkpoints are.
C28_InsideWithinGlobal ==
    pc = "computeFeeGrowthInside" =>
        /\ 0 <= inside0
        /\ inside0 <= feeGrowthGlobal0
        /\ 0 <= inside1
        /\ inside1 <= feeGrowthGlobal1

\* the checkpoints of token0 add up to more than its global fee growth, so
\* the plain difference would be negative and the result is 0, while token1
\* has no fee growth outside the range and gets all of its global fee growth
C28_Witness ==
    /\ pc = "computeFeeGrowthInside"
    /\ tickLower <= tickCurrent
    /\ tickCurrent < tickUpper
    /\ feeGrowthOutsideLower0 + feeGrowthOutsideUpper0 > feeGrowthGlobal0
    /\ feeGrowthGlobal0 > 0
    /\ inside0 = 0
    /\ feeGrowthOutsideLower1 = 0
    /\ feeGrowthOutsideUpper1 = 0
    /\ feeGrowthGlobal1 > 0
    /\ inside1 = feeGrowthGlobal1

----------------------------------------------------------------------------
(* C29: the two floor-rounded prices never over-state each other *)

\* the product of the price the call of the state returned with the price
\* in the other direction, for d decimals of the other token
ProductWithOtherPrice(d) ==
    IF pc = "pricePerToken0InToken1"
    THEN result * pricePerToken1InToken0(sqrtPriceCurrentX96, d)
    ELSE pricePerToken0InToken1(sqrtPriceCurrentX96, d) * result

\* one of the two prices of a positive sqrt price has been computed
PriceOfPositiveSqrtPrice ==
    /\ pc \in {"pricePerToken0InToken1", "pricePerToken1InToken0"}
    /\ sqrtPriceCurrentX96 > 0

\* C29: for every positive sqrt price s and decimals d0, d1,
\* pricePerToken0InToken1(s, d0) * pricePerToken1InToken0(s, d1)
\* <= 10^(d0 + d1).
C29_ProductOfPricesBounded ==
    PriceOfPositiveSqrtPrice =>
        /\ ~threw
        /\ \A d \in Decimals :
              ProductWithOtherPrice(d) <= 10 ^ (baseTokenDecimals + d)

\* the two prices are no exact inverses: the product is positive and
\* strictly below 10^(d0 + d1)
C29_Witness ==
    /\ PriceOfPositiveSqrtPrice
    /\ ~threw
    /\ result > 0
    /\ \E d \in Decimals :
          /\ ProductWithOtherPrice(d) > 0
          /\ ProductWithOtherPrice(d) < 10 ^ (baseTokenDecimals + d)

\* at a sqrt price far from 2^96 one of the two prices rounds down to 0 and
\* so does the product
ProductIsZero ==
    /\ PriceOfPositiveSqrtPrice
    /\ ~threw
    /\ result > 0
    /\ \E d \in Decimals : ProductWithOtherPrice(d) = 0

\* on a sqrt price whose square divides evenly the product meets the bound
ProductMeetsBound ==
    /\ PriceOfPositiveSqrtPrice
    /\ ~threw
    /\ sqrtPriceCurrentX96 # Q96
    /\ \E d \in Decimals :
          ProductWithOtherPrice(d) = 10 ^ (baseTokenDecimals + d)

----------------------------------------------------------------------------
(* C30: phase and holdings agree *)

\* the holdings of the position of the state at the sqrt ratio of tick t
HoldingsAtTick(t, up) ==
    getTokenAmountsFromLiquidity(liquidity, getSqrtRatioAtTick(t), tickLower,
                                 tickUpper, up)

\* the tick generatePnLCurve evaluates the sample price p at
TickOfSample(p) ==
    priceToTick(p, tickSpacing, baseTokenAddress, quoteTokenAddress,
                baseTokenDecimals)

\* the value in quote units of holdings in one token only: a0 of token0, or
\* a1 of token1, at the sample price p
ValueOfToken0Only(a0, p) ==
    IF BigInt(baseTokenAddress) < BigInt(quoteTokenAddress)
    THEN FloorOf(a0 * p, 10 ^ baseTokenDecimals)
    ELSE a0

ValueOfToken1Only(a1, p) ==
    IF BigInt(baseTokenAddress) < BigInt(quoteTokenAddress)
    THEN a1
    ELSE FloorOf(a1 * p, 10 ^ baseTokenDecimals)

\* C30: for any tick t with sqrt price S = sqrtRatio(t) and any range
\* tickLower < tickUpper, if determinePhase(t, tickLower, tickUpper) is
\* "below" then getTokenAmountsFromLiquidity(L, S, tickLower, tickUpper) has
\* token1Amount = 0, and if it is "above" then token0Amount = 0; so a point of
\* the PnL curve labelled "below" is valued from token0 only and a point
\* labelled "above" from token1 only.  Checked when generatePnLCurve has
\* returned (or thrown), on every point it pushed.
C30_PhaseAgreesWithHoldings ==
    pc = "generatePnLCurve" =>
        /\ \A t \in MIN_TICK .. MAX_TICK, up \in BOOLEAN :
              /\ determinePhase(t, tickLower, tickUpper) = "below"
                    => HoldingsAtTick(t, up).token1Amount = 0
              /\ determinePhase(t, tickLower, tickUpper) = "above"
                    => HoldingsAtTick(t, up).token0Amount = 0
        /\ \A k \in 1 .. Len(points) :
              LET pt == points[k]
                  t == TickOfSample(pt.price)
                  held == HoldingsAtTick(t, FALSE)
              IN  /\ pt.phase = determinePhase(t, tickLower, tickUpper)
                  /\ pt.phase = "below" =>
                        /\ held.token1Amount = 0
                        /\ pt.positionValue
                             = ValueOfToken0Only(held.token0Amount, pt.price)
                  /\ pt.phase = "above" =>
                        /\ held.token0Amount = 0
                        /\ pt.positionValue
                             = ValueOfToken1Only(held.token1Amount, pt.price)

\* a returned curve that starts below the range and ends above it, with a
\* positive value at both ends
C30_Witness ==
    /\ pc = "generatePnLCurve"
    /\ ~threw
    /\ Len(curve) >= 2
    /\ curve[1].phase = "below"
    /\ curve[1].positionValue > 0
    /\ HoldingsAtTick(TickOfSample(curve[1].price), FALSE).token0Amount > 0
    /\ curve[Len(curve)].phase = "above"
    /\ curve[Len(curve)].positionValue > 0
    /\ HoldingsAtTick(TickOfSample(curve[Len(curve)].price), FALSE).token1Amount > 0

====
